---- MODULE Spec2Model ----
(***************************************************************************)
(* A model of the hexabase-ai orchestration layer:                         *)
(*   - ai-ops/app: the chat endpoint, OrchestratorAgent (select_tool, run) *)
(*     and the three cluster tools of TOOL_REGISTRY;                       *)
(*   - ai-ops/src/aiops: the workspace-scoped routers behind the JWT       *)
(*     middleware.                                                         *)
(* Python values are tagged records, strings are TLA+ strings, and an      *)
(* operation that may raise yields Ok(v) or Raise(type, msg).              *)
(***************************************************************************)
EXTENDS Integers, Sequences, FiniteSets, TLC

VARIABLES
    pc,              \* position of the request being handled
    entry,           \* "chat_endpoint" or "run": how the orchestrator was entered
    workspace_id,    \* the caller's workspace (claims.active_workspace_id)
    llm_calls,       \* llm_client.predict calls made for this request
    llm_response,    \* what predict returned to select_tool
    tool_name,       \* run's local: first component of select_tool's return
    tool_input_dict, \* run's local: second component of select_tool's return
    input_model,     \* the pydantic input model run built, or None
    tool_uses,       \* tool.use calls made for this request
    api_requests,    \* cluster API requests sent for this request, in order
    api_outcome,     \* how the cluster API request of tool.use ended, or None
    system_prompt,   \* the system prompt of the last predict call of select_tool
    result,          \* the string run returned, or None
    raised,          \* the exception that left run, or None
    chat_response,   \* what chat_endpoint answered, or None
    ws_req,          \* workspace router: the request in hand
    ws_pc,           \* workspace router: position of that request
    ws_auth,         \* workspace router: request.state.auth, or None
    ws_response,     \* workspace router: the response, or None
    registered_functions, \* AutoCleanupManager._registered_functions, in insertion order
    cl_pc,           \* cleanup_expired_functions: "idle", or the await it is at
    cl_items,        \* the items of its snapshot still to visit, the current one first
    deleted_functions, \* its local set deleted_functions
    delete_calls,    \* ids whose remote delete the cycle has called
    cl_returned,     \* the set the last finished cycle returned, or None
    cl_event,        \* the call or cleanup step that was last made
    now,             \* time.time(), in seconds
    access_token,    \* TokenManager._access_token, or None
    token_expires_at, \* TokenManager._token_expires_at
    refresh_lock,    \* AuthProvider._refresh_lock: the task holding it, or 0
    lock_waiters,    \* the tasks waiting for the lock, first come first
    tk_pc,           \* per task: where its get_valid_token call is
    tk_result,       \* per task: what its get_valid_token call returned or raised
    authenticate_calls, \* authenticate calls made so far
    tk_round,        \* the calls in flight together: who called, who waited, the refreshes
    got_token,       \* what the last direct TokenManager.get_token call returned or raised
    running,         \* AutoCleanupManager._running
    cleanup_task,    \* AutoCleanupManager._cleanup_task: the task last created, or 0
    bg_task,         \* per loop task: not created, at its sleep, in a cycle, or done
    cancel_req,      \* the loop tasks whose cancel() was called and not yet delivered
    stop_call,       \* the stop_background_cleanup call: where it is, the task it awaits
    orphaned,        \* ids deleted by the server in a delete the cancelled cycle never saw end
    jwks_cache,      \* main.py's global jwks_cache, as its set of (key, value) items
    key_pc,          \* per caller: where its get_public_key call is
    key_result,      \* per caller: what its last get_public_key call returned or raised
    fetched_keys,    \* the keys that a JWKS fetch has produced so far
    key_event,       \* the get_public_key step that was last made
    rq_pc,           \* _make_request: "idle", the await the call is at, or "done"
    rq_log,          \* the attempts of the call that are over: what came, what was raised
    rq_result        \* what the call returned or raised, or None

orch_vars == <<pc, entry, workspace_id, llm_calls, llm_response, tool_name,
               tool_input_dict, input_model, tool_uses, api_requests, api_outcome,
               system_prompt, result, raised, chat_response>>
ws_vars == <<ws_req, ws_pc, ws_auth, ws_response>>
cl_vars == <<registered_functions, cl_pc, cl_items, deleted_functions, delete_calls,
             cl_returned, cl_event>>
tk_vars == <<now, access_token, token_expires_at, refresh_lock, lock_waiters, tk_pc,
             tk_result, authenticate_calls, tk_round, got_token>>
bg_vars == <<running, cleanup_task, bg_task, cancel_req, stop_call, orphaned>>
sdk_vars == <<cl_vars, tk_vars, bg_vars>>
key_vars == <<jwks_cache, key_pc, key_result, fetched_keys, key_event>>
rq_vars == <<rq_pc, rq_log, rq_result>>
svc_vars == <<key_vars, rq_vars>>
vars == <<orch_vars, ws_vars, sdk_vars, svc_vars>>

----------------------------------------------------------------------------
(* Python values *)

None == [t |-> "none"]
JStr(s) == [t |-> "str", s |-> s]
JInt(i) == [t |-> "int", i |-> i]
JList(xs) == [t |-> "list", xs |-> xs]
PySet(e) == [t |-> "set", e |-> e]
JDict(d) == [t |-> "dict", d |-> d]
EmptyDict == [k \in {} |-> None]

Ok(v) == [ok |-> TRUE, v |-> v]
Raise(type, msg) == [ok |-> FALSE, exc |-> type, msg |-> msg]

\* type(x).__name__
TypeName(x) ==
    CASE x.t = "none" -> "NoneType"
      [] x.t = "str" -> "str"
      [] x.t = "int" -> "int"
      [] x.t = "list" -> "list"
      [] x.t = "dict" -> "dict"

\* str(x) as an f-string renders it; containers are rendered by their type only
PyStr(x) ==
    CASE x.t = "none" -> "None"
      [] x.t = "str" -> x.s
      [] x.t = "int" -> ToString(x.i)
      [] x.t = "list" -> "[...]"
      [] x.t = "dict" -> "{...}"

\* bool(x): Python truthiness
Truthy(x) ==
    CASE x.t = "none" -> FALSE
      [] x.t = "str" -> x.s # ""
      [] x.t = "int" -> x.i # 0
      [] x.t = "list" -> Len(x.xs) > 0
      [] x.t = "dict" -> DOMAIN x.d # {}

\* hash(x) succeeds
Hashable(x) == x.t \notin {"list", "dict"}

\* sub occurs in s
Contains(s, sub) ==
    \E i \in 1..(Len(s) - Len(sub) + 1) : SubSeq(s, i, i + Len(sub) - 1) = sub

\* d[k] = v on a dict value
DictSet(d, k, v) == JDict((k :> v) @@ d.d)

----------------------------------------------------------------------------
(* The language model's replies.  A reply text is a concrete string and     *)
(* json_loads is json.loads on those strings.                               *)

TxtNodes == "{\"tool_name\": \"get_kubernetes_nodes\", \"tool_input\": {}}"
TxtNodesWs == "{\"tool_name\": \"get_kubernetes_nodes\", \"tool_input\": {\"workspace_id\": \"ws-2\"}}"
TxtNodesInputNull == "{\"tool_name\": \"get_kubernetes_nodes\", \"tool_input\": null}"
TxtNodesInputList == "{\"tool_name\": \"get_kubernetes_nodes\", \"tool_input\": []}"
TxtScale == "{\"tool_name\": \"scale_deployment\", \"tool_input\": {\"deployment_name\": \"my-api\", \"replicas\": 5}}"
TxtScaleWs == "{\"tool_name\": \"scale_deployment\", \"tool_input\": {\"deployment_name\": \"my-api\", \"replicas\": 5, \"workspace_id\": \"ws-2\"}}"
TxtScaleNoReplicas == "{\"tool_name\": \"scale_deployment\", \"tool_input\": {\"deployment_name\": \"my-api\"}}"
TxtScaleNoName == "{\"tool_name\": \"scale_deployment\", \"tool_input\": {\"replicas\": 5}}"
TxtScaleBadReplicas == "{\"tool_name\": \"scale_deployment\", \"tool_input\": {\"deployment_name\": \"my-api\", \"replicas\": \"many\"}}"
TxtScaleStrReplicas == "{\"tool_name\": \"scale_deployment\", \"tool_input\": {\"deployment_name\": \"my-api\", \"replicas\": \"5\"}}"
TxtScaleListName == "{\"tool_name\": \"scale_deployment\", \"tool_input\": {\"deployment_name\": [], \"replicas\": 5}}"
TxtLogs == "{\"tool_name\": \"query_logs\", \"tool_input\": {\"level\": \"error\"}}"
TxtLogsLimit == "{\"tool_name\": \"query_logs\", \"tool_input\": {\"search_term\": \"timeout\", \"limit\": 10}}"
TxtLogsBadLimit == "{\"tool_name\": \"query_logs\", \"tool_input\": {\"limit\": \"lots\"}}"
TxtCoffee == "{\"tool_name\": \"make_coffee_tool\", \"tool_input\": {}}"
TxtErrorName == "{\"tool_name\": \"error\", \"tool_input\": {}}"
TxtNullName == "{\"tool_name\": null, \"tool_input\": {}}"
TxtListName == "{\"tool_name\": [\"scale_deployment\"], \"tool_input\": {}}"
TxtNoToolName == "{\"tool_input\": {}}"
TxtNoToolInput == "{\"tool_name\": \"get_kubernetes_nodes\"}"
TxtEmptyObject == "{}"
TxtArray == "[1, 2]"
TxtNotJson == "This is not JSON."
TxtEmpty == ""

Selection(name, input) == JDict([tool_name |-> name, tool_input |-> input])

\* json.loads on each text that is JSON; every other text raises JSONDecodeError
JsonTable ==
    (TxtNodes :> Selection(JStr("get_kubernetes_nodes"), JDict(EmptyDict)))
 @@ (TxtNodesWs :> Selection(JStr("get_kubernetes_nodes"), JDict([workspace_id |-> JStr("ws-2")])))
 @@ (TxtNodesInputNull :> Selection(JStr("get_kubernetes_nodes"), None))
 @@ (TxtNodesInputList :> Selection(JStr("get_kubernetes_nodes"), JList(<<>>)))
 @@ (TxtScale :> Selection(JStr("scale_deployment"),
        JDict([deployment_name |-> JStr("my-api"), replicas |-> JInt(5)])))
 @@ (TxtScaleWs :> Selection(JStr("scale_deployment"),
        JDict([deployment_name |-> JStr("my-api"), replicas |-> JInt(5),
               workspace_id |-> JStr("ws-2")])))
 @@ (TxtScaleNoReplicas :> Selection(JStr("scale_deployment"),
        JDict([deployment_name |-> JStr("my-api")])))
 @@ (TxtScaleNoName :> Selection(JStr("scale_deployment"), JDict([replicas |-> JInt(5)])))
 @@ (TxtScaleBadReplicas :> Selection(JStr("scale_deployment"),
        JDict([deployment_name |-> JStr("my-api"), replicas |-> JStr("many")])))
 @@ (TxtScaleStrReplicas :> Selection(JStr("scale_deployment"),
        JDict([deployment_name |-> JStr("my-api"), replicas |-> JStr("5")])))
 @@ (TxtScaleListName :> Selection(JStr("scale_deployment"),
        JDict([deployment_name |-> JList(<<>>), replicas |-> JInt(5)])))
 @@ (TxtLogs :> Selection(JStr("query_logs"), JDict([level |-> JStr("error")])))
 @@ (TxtLogsLimit :> Selection(JStr("query_logs"),
        JDict([search_term |-> JStr("timeout"), limit |-> JInt(10)])))
 @@ (TxtLogsBadLimit :> Selection(JStr("query_logs"), JDict([limit |-> JStr("lots")])))
 @@ (TxtCoffee :> Selection(JStr("make_coffee_tool"), JDict(EmptyDict)))
 @@ (TxtErrorName :> Selection(JStr("error"), JDict(EmptyDict)))
 @@ (TxtNullName :> Selection(None, JDict(EmptyDict)))
 @@ (TxtListName :> Selection(JList(<<JStr("scale_deployment")>>), JDict(EmptyDict)))
 @@ (TxtNoToolName :> JDict([tool_input |-> JDict(EmptyDict)]))
 @@ (TxtNoToolInput :> JDict([tool_name |-> JStr("get_kubernetes_nodes")]))
 @@ (TxtEmptyObject :> JDict(EmptyDict))
 @@ (TxtArray :> JList(<<JInt(1), JInt(2)>>))

Texts == DOMAIN JsonTable \cup {TxtNotJson, TxtEmpty}

\* json.loads(x)
json_loads(x) ==
    IF x.t # "str"
    THEN Raise("TypeError",
               "the JSON object must be str, bytes or bytearray, not " \o TypeName(x))
    ELSE IF x.s \in DOMAIN JsonTable
         THEN Ok(JsonTable[x.s])
         ELSE Raise("JSONDecodeError", "Expecting value: line 1 column 1 (char 0)")

\* What llm_client.predict may return: a text (the mocks), the body of the
\* model service's answer (OllamaClient.predict returns response.json(): a
\* container with the text under "response", or any other JSON value), or
\* OllamaClient's own error dict.
ContainerOf(text) == JDict([response |-> JStr(text), done |-> JInt(1)])
LlmErrorDict ==
    JDict([error |-> JStr("Failed to connect to LLM service"),
           detail |-> JStr("connection refused")])
LlmErrorWithResponse ==
    JDict([error |-> JStr("model overloaded"), response |-> JStr(TxtScale)])
LlmNestedObject == JDict([response |-> JsonTable[TxtNodes]])

Replies ==
    {JStr(x) : x \in Texts}
    \cup {ContainerOf(x) : x \in Texts}
    \cup {JsonTable[x] : x \in DOMAIN JsonTable}
    \cup {LlmErrorDict, LlmErrorWithResponse, LlmNestedObject, None}

----------------------------------------------------------------------------
(* The tool registry and the orchestrator's select_tool *)

TOOL_REGISTRY ==
    << [name |-> "get_kubernetes_nodes",
        description |-> "Fetches a list of Kubernetes nodes and their status for a given workspace. Use this to answer questions about cluster nodes, their health, or count."],
       [name |-> "scale_deployment",
        description |-> "Scales a specified deployment in a given workspace to the desired number of replicas. Use this for requests like 'scale my-app to 3 pods' or 'set replicas for web-api to 5'."],
       [name |-> "query_logs",
        description |-> "Searches and retrieves logs from a workspace based on search terms, log level, and time range."] >>

\* list(self.tools.keys()): self.tools is built from TOOL_REGISTRY in order
tools_keys == [i \in 1..Len(TOOL_REGISTRY) |-> TOOL_REGISTRY[i].name]

\* name in self.tools, for a hashable name
in_tools(name) == name.t = "str" /\ \E i \in 1..Len(tools_keys) : tools_keys[i] = name.s

\* the lines of the prompt's tool list, one per tool in the order given
RECURSIVE tool_lines(_)
tool_lines(tools) ==
    IF Len(tools) = 0 THEN ""
    ELSE "- " \o Head(tools).name \o ": " \o Head(tools).description \o "\n"
         \o tool_lines(Tail(tools))

\* Variant of generate_system_prompt: the tools are listed sorted by name
generate_system_prompt_sorted(tools) ==
    "You are the Hexabase AIOps Orchestrator. Your role is to understand a user's request and use the available tools to answer it. "
    \o "You must respond in a specific JSON format. Based on the user's query, select exactly one tool to use.\n\n"
    \o "Available Tools:\n"
    \o tool_lines(<<tools[1], tools[3], tools[2]>>)
    \o "\n"
    \o "Your response MUST be a single JSON object with two keys: 'tool_name' and 'tool_input'. "
    \o "'tool_name' must be a string matching one of the available tool names. "
    \o "'tool_input' must be a JSON object containing the parameters for that tool."

\* OrchestratorAgent._generate_system_prompt over self.tools.values()
generate_system_prompt(tools) ==
    "You are the Hexabase AIOps Orchestrator. Your role is to understand a user's request and use the available tools to answer it. "
    \o "You must respond in a specific JSON format. Based on the user's query, select exactly one tool to use.\n\n"
    \o "Available Tools:\n"
    \o tool_lines(tools)
    \o "\n"
    \o "Your response MUST be a single JSON object with two keys: 'tool_name' and 'tool_input'. "
    \o "'tool_name' must be a string matching one of the available tool names. "
    \o "'tool_input' must be a JSON object containing the parameters for that tool."

\* return "error", {...}
ErrorReturn(fields) == [tool_name |-> "error", tool_input |-> JDict(fields)]

\* Variant of available_tools: sorted(self.tools.keys())
available_tools_sorted ==
    JList(<<JStr("get_kubernetes_nodes"), JStr("query_logs"), JStr("scale_deployment")>>)

\* the "available_tools" entry of the invalid-tool failure
available_tools == JList([i \in 1..Len(tools_keys) |-> JStr(tools_keys[i])])

\* Variant of inject_workspace: tool_input.setdefault("workspace_id", workspace_id),
\* which keeps a workspace_id the reply carries
inject_workspace_setdefault(tool_input, ws) ==
    IF tool_input.t = "dict"
    THEN Ok(IF "workspace_id" \in DOMAIN tool_input.d
            THEN tool_input
            ELSE DictSet(tool_input, "workspace_id", JStr(ws)))
    ELSE Raise("TypeError",
               "'" \o TypeName(tool_input) \o "' object does not support item assignment")

\* tool_input["workspace_id"] = workspace_id
inject_workspace(tool_input, ws) ==
    IF tool_input.t = "dict"
    THEN Ok(DictSet(tool_input, "workspace_id", JStr(ws)))
    ELSE Raise("TypeError",
               "'" \o TypeName(tool_input) \o "' object does not support item assignment")

\* Variant of response_data: a dict reply is taken as the object itself, its
\* "response" text is never parsed
response_data_unparsed(reply) ==
    IF reply.t = "dict" THEN Ok(reply) ELSE json_loads(reply)

\* the reply brought to the object that holds tool_name and tool_input
response_data(reply) ==
    IF reply.t = "dict"
    THEN IF "response" \in DOMAIN reply.d
         THEN json_loads(reply.d["response"])
         ELSE Ok(reply)
    ELSE json_loads(reply)

\* from the two subscripts to the return of the selection
resolve(data, ws) ==
    IF data.t # "dict"
    THEN Raise("TypeError", "'" \o TypeName(data) \o "' object is not subscriptable")
    ELSE IF "tool_name" \notin DOMAIN data.d THEN Raise("KeyError", "'tool_name'")
    ELSE IF "tool_input" \notin DOMAIN data.d THEN Raise("KeyError", "'tool_input'")
    ELSE LET name == data.d["tool_name"]
             input == data.d["tool_input"]
         IN IF ~Hashable(name)
            THEN Raise("TypeError", "unhashable type: '" \o TypeName(name) \o "'")
            ELSE IF ~in_tools(name)
            THEN Ok(ErrorReturn(
                     [message |-> JStr("The AI selected an invalid tool: '" \o PyStr(name) \o "'"),
                      available_tools |-> available_tools]))
            ELSE LET scoped == inject_workspace(input, ws)
                 IN IF scoped.ok
                    THEN Ok([tool_name |-> name.s, tool_input |-> scoped.v])
                    ELSE scoped

\* the three except clauses of select_tool
select_tool_except(e, reply) ==
    CASE e.exc = "JSONDecodeError" ->
            ErrorReturn([message |-> JStr("The AI model produced invalid JSON"),
                         detail |-> JStr(e.msg),
                         raw_response |-> JStr(PyStr(reply))])
      [] e.exc = "KeyError" ->
            ErrorReturn([message |-> JStr("The AI model response is missing required field: " \o e.msg),
                         detail |-> JStr(e.msg)])
      [] OTHER ->
            ErrorReturn([message |-> JStr("An unexpected error occurred while processing the AI response"),
                         detail |-> JStr(e.msg),
                         type |-> JStr(e.exc)])

\* OrchestratorAgent.select_tool, after predict returned reply
select_tool(reply, ws) ==
    IF reply.t = "dict" /\ "error" \in DOMAIN reply.d
    THEN ErrorReturn([message |-> JStr("The AI model encountered an error"),
                      detail |-> reply.d["error"]])
    ELSE LET data == response_data(reply)
             sel == IF data.ok THEN resolve(data.v, ws) ELSE data
         IN IF sel.ok THEN sel.v ELSE select_tool_except(sel, reply)

----------------------------------------------------------------------------
(* The pydantic input models *)

Field(name, type, required, default) ==
    [name |-> name, type |-> type, required |-> required, default |-> default]

GetKubernetesNodesInput ==
    [cls |-> "GetKubernetesNodesInput",
     fields |-> << Field("workspace_id", "str", TRUE, None) >>]

ScaleDeploymentInput ==
    [cls |-> "ScaleDeploymentInput",
     fields |-> << Field("workspace_id", "str", TRUE, None),
                   Field("deployment_name", "str", TRUE, None),
                   Field("replicas", "int", TRUE, None) >>]

LogQueryInput ==
    [cls |-> "LogQueryInput",
     fields |-> << Field("workspace_id", "str", TRUE, None),
                   Field("search_term", "str", FALSE, None),
                   Field("level", "str", FALSE, None),
                   Field("start_time", "str", FALSE, None),
                   Field("end_time", "str", FALSE, None),
                   Field("limit", "int", FALSE, JInt(100)) >>]

\* the strings pydantic reads as an integer, among those the replies carry
IntLiterals == ("5" :> 5) @@ ("10" :> 10)

\* Variant of validate_field: no type is enforced
validate_field_any(type, v) == Ok(v)

\* pydantic's validation of one value against a field type: a str field takes
\* a str, an int field takes an int or a str that reads as one
validate_field(type, v) ==
    CASE type = "str" /\ v.t = "str" -> Ok(v)
      [] type = "int" /\ v.t = "int" -> Ok(v)
      [] type = "int" /\ v.t = "str" /\ v.s \in DOMAIN IntLiterals -> Ok(JInt(IntLiterals[v.s]))
      [] OTHER -> Raise("ValidationError", "Input should be a valid " \o type)

\* input_model_class(**d): unknown keys are ignored, absent optional fields
\* take their default (unvalidated), every failing field is counted
construct(model_class, d) ==
    LET fs == model_class.fields
        given(i) == fs[i].name \in DOMAIN d.d
        checked(i) == validate_field(fs[i].type, d.d[fs[i].name])
        bad(i) == IF given(i) THEN ~checked(i).ok ELSE fs[i].required
        n == Cardinality({i \in 1..Len(fs) : bad(i)})
        value(i) == IF given(i) THEN checked(i).v ELSE fs[i].default
        idx(k) == CHOOSE i \in 1..Len(fs) : fs[i].name = k
    IN IF n = 0
       THEN Ok([t |-> "model", cls |-> model_class.cls,
                f |-> [k \in {fs[i].name : i \in 1..Len(fs)} |-> value(idx(k))]])
       ELSE Raise("ValidationError",
                  ToString(n) \o " validation error" \o (IF n = 1 THEN "" ELSE "s")
                  \o " for " \o model_class.cls)

\* run's tool_input_models.get(tool.name)
tool_input_models(name) ==
    CASE name = "get_kubernetes_nodes" -> Ok(GetKubernetesNodesInput)
      [] name = "scale_deployment" -> Ok(ScaleDeploymentInput)
      [] name = "query_logs" -> Ok(LogQueryInput)
      [] OTHER -> Raise("None", "")

----------------------------------------------------------------------------
(* The cluster API and the three tools *)

HKS_INTERNAL_API_URL == "http://api-service.hexabase.svc.cluster.local"

Node(name, status) == JDict([name |-> JStr(name), status |-> JStr(status)])
LogEntry(ts, level, message) ==
    JDict([timestamp |-> JStr(ts), level |-> JStr(level), message |-> JStr(message)])

ThreeNodes ==
    JList(<< Node("node-1", "Ready"), Node("node-2", "Ready"), Node("node-3", "NotReady") >>)
TwoLogs ==
    JList(<< LogEntry("2025-01-01T00:00:00Z", "error", "connection timeout"),
             LogEntry("2025-01-01T00:00:05Z", "warn", "retrying") >>)

JsonBody(v) == [json |-> TRUE, v |-> v]
TextBody(text) == [json |-> FALSE, text |-> text]

\* the bodies the cluster API may answer with
ApiBodies ==
    { JsonBody(ThreeNodes), JsonBody(TwoLogs), JsonBody(JList(<<>>)),
      JsonBody(JDict([logs |-> TwoLogs, total_count |-> JInt(2)])),
      JsonBody(JDict([logs |-> JList(<<>>), total_count |-> JInt(0)])),
      JsonBody(JDict([error |-> JStr("deployment not found")])),
      JsonBody(JDict([message |-> JStr("internal failure")])),
      JsonBody(JList(<<JStr("bad gateway")>>)),
      JsonBody(None),
      TextBody("<html>502 Bad Gateway</html>"),
      TextBody("") }

ApiStatusCodes == {200, 201, 404, 500}

\* every outcome of one request: a response, or no response at all
ApiOutcomes ==
    { [kind |-> "response", status_code |-> c, body |-> b] :
          c \in ApiStatusCodes, b \in ApiBodies }
    \cup { [kind |-> "error", exc |-> "ConnectError", msg |-> "[Errno 111] Connection refused"],
           [kind |-> "error", exc |-> "ReadTimeout", msg |-> "timed out"] }

\* response.raise_for_status() lets the response through
is_success(out) == out.status_code \in 200..299

\* response.json()
response_json(out) ==
    IF out.body.json
    THEN Ok(out.body.v)
    ELSE Raise("JSONDecodeError", "Expecting value: line 1 column 1 (char 0)")

\* len(x)
py_len(x) ==
    CASE x.t = "list" -> Ok(Len(x.xs))
      [] x.t = "dict" -> Ok(Cardinality(DOMAIN x.d))
      [] x.t = "str" -> Ok(Len(x.s))
      [] OTHER -> Raise("TypeError", "object of type '" \o TypeName(x) \o "' has no len()")

RECURSIVE SetToSeq(_)
SetToSeq(S) ==
    IF S = {} THEN <<>>
    ELSE LET x == CHOOSE y \in S : TRUE IN <<x>> \o SetToSeq(S \ {x})

\* the items a for loop over x visits (a dict yields its keys, a str its characters)
py_iter(x) ==
    CASE x.t = "list" -> Ok(x.xs)
      [] x.t = "dict" -> Ok([i \in 1..Cardinality(DOMAIN x.d) |-> JStr(SetToSeq(DOMAIN x.d)[i])])
      [] x.t = "str" -> Ok([i \in 1..Len(x.s) |-> JStr(SubSeq(x.s, i, i))])
      [] OTHER -> Raise("TypeError", "'" \o TypeName(x) \o "' object is not iterable")

\* x.get(key, default)
py_get(x, key, default) ==
    IF x.t = "dict"
    THEN Ok(IF key \in DOMAIN x.d THEN x.d[key] ELSE default)
    ELSE Raise("AttributeError", "'" \o TypeName(x) \o "' object has no attribute 'get'")

Whitespace == {" ", "\n", "\t", "\r"}

\* str.strip()
RECURSIVE strip(_)
strip(s) ==
    IF Len(s) = 0 THEN s
    ELSE IF SubSeq(s, 1, 1) \in Whitespace THEN strip(SubSeq(s, 2, Len(s)))
    ELSE IF SubSeq(s, Len(s), Len(s)) \in Whitespace THEN strip(SubSeq(s, 1, Len(s) - 1))
    ELSE s

\* the loop of GetKubernetesNodesTool.use over the nodes
RECURSIVE node_lines(_)
node_lines(items) ==
    IF Len(items) = 0 THEN Ok("")
    ELSE LET name == py_get(Head(items), "name", None)
             status == py_get(Head(items), "status", None)
         IN IF ~name.ok THEN name
            ELSE LET rest == node_lines(Tail(items))
                 IN IF ~rest.ok THEN rest
                    ELSE Ok("- Node '" \o PyStr(name.v) \o "' is " \o PyStr(status.v)
                            \o ".\n" \o rest.v)

\* the loop of LogQueryingTool.use over the logs
RECURSIVE log_lines(_)
log_lines(items) ==
    IF Len(items) = 0 THEN Ok("")
    ELSE LET ts == py_get(Head(items), "timestamp", None)
             level == py_get(Head(items), "level", None)
             message == py_get(Head(items), "message", None)
         IN IF ~ts.ok THEN ts
            ELSE LET rest == log_lines(Tail(items))
                 IN IF ~rest.ok THEN rest
                    ELSE Ok("- [" \o PyStr(ts.v) \o "] [" \o PyStr(level.v) \o "] "
                            \o PyStr(message.v) \o "\n" \o rest.v)

\* the request GetKubernetesNodesTool.use sends
nodes_request(m) ==
    [method |-> "GET",
     url |-> HKS_INTERNAL_API_URL \o "/internal/v1/workspaces/" \o PyStr(m.f["workspace_id"]) \o "/nodes",
     json |-> None]

\* GetKubernetesNodesTool.use, from the outcome of its request
nodes_use(m, out) ==
    LET ws == PyStr(m.f["workspace_id"])
        unexpected(e) ==
            Ok("Error: An unexpected error occurred while fetching node data: " \o e.msg)
    IN IF out.kind # "response" THEN unexpected(out)
       ELSE IF ~is_success(out)
       THEN Ok("Error: Could not retrieve node data. The API returned a "
               \o ToString(out.status_code) \o " status.")
       ELSE LET nodes == response_json(out)
            IN IF ~nodes.ok THEN unexpected(nodes)
               ELSE IF ~Truthy(nodes.v)
               THEN Ok("No nodes found for workspace " \o ws \o ".")
               ELSE LET n == py_len(nodes.v)
                        items == py_iter(nodes.v)
                        lines == IF items.ok THEN node_lines(items.v) ELSE items
                    IN IF ~n.ok THEN unexpected(n)
                       ELSE IF ~lines.ok THEN unexpected(lines)
                       ELSE Ok(strip("Found " \o ToString(n.v) \o " nodes for workspace "
                                     \o ws \o ".\n" \o lines.v))

\* the request ScaleDeploymentTool.use sends
scale_request(m) ==
    [method |-> "POST",
     url |-> HKS_INTERNAL_API_URL \o "/internal/v1/workspaces/" \o PyStr(m.f["workspace_id"])
             \o "/deployments/" \o PyStr(m.f["deployment_name"]) \o "/scale",
     json |-> JDict([replicas |-> m.f["replicas"]])]

\* the except httpx.HTTPStatusError clause of the scale and log tools: what it
\* raises leaves use, no sibling except clause catches it
status_error_handler(prefix, out) ==
    LET body == response_json(out)
        detail == IF body.ok THEN py_get(body.v, "error", JStr("unknown error")) ELSE body
    IN IF ~detail.ok THEN detail
       ELSE Ok(prefix \o " The API returned a " \o ToString(out.status_code)
               \o " status: " \o PyStr(detail.v))

\* ScaleDeploymentTool.use, from the outcome of its request
scale_use(m, out) ==
    IF out.kind # "response"
    THEN Ok("Error: An unexpected error occurred while scaling deployment: " \o out.msg)
    ELSE IF ~is_success(out)
    THEN status_error_handler("Error: Could not scale deployment.", out)
    ELSE Ok("Successfully scaled deployment '" \o PyStr(m.f["deployment_name"]) \o "' to "
            \o PyStr(m.f["replicas"]) \o " replicas.")

\* input_data.dict(exclude_none=True)
dict_exclude_none(m) == JDict([k \in {k \in DOMAIN m.f : m.f[k] # None} |-> m.f[k]])

\* the request LogQueryingTool.use sends
logs_request(m) ==
    [method |-> "POST",
     url |-> HKS_INTERNAL_API_URL \o "/internal/v1/logs/query",
     json |-> dict_exclude_none(m)]

\* LogQueryingTool.use, from the outcome of its request
logs_use(m, out) ==
    LET ws == PyStr(m.f["workspace_id"])
        unexpected(e) ==
            Ok("Error: An unexpected error occurred while querying logs: " \o e.msg)
    IN IF out.kind # "response" THEN unexpected(out)
       ELSE IF ~is_success(out)
       THEN status_error_handler("Error: Could not query logs.", out)
       ELSE LET logs == response_json(out)
            IN IF ~logs.ok THEN unexpected(logs)
               ELSE IF ~Truthy(logs.v)
               THEN Ok("No logs found for workspace " \o ws \o " with the given criteria.")
               ELSE LET n == py_len(logs.v)
                        items == py_iter(logs.v)
                        lines == IF items.ok THEN log_lines(items.v) ELSE items
                    IN IF ~n.ok THEN unexpected(n)
                       ELSE IF ~lines.ok THEN unexpected(lines)
                       ELSE Ok(strip("Found " \o ToString(n.v) \o " log entries:\n" \o lines.v))

\* the request tool.use(input_model) sends
tool_request(name, m) ==
    CASE name = "get_kubernetes_nodes" -> nodes_request(m)
      [] name = "scale_deployment" -> scale_request(m)
      [] name = "query_logs" -> logs_request(m)

\* tool.use(input_model): the string it returns, or the exception that leaves it
tool_use(name, m, out) ==
    CASE name = "get_kubernetes_nodes" -> nodes_use(m, out)
      [] name = "scale_deployment" -> scale_use(m, out)
      [] name = "query_logs" -> logs_use(m, out)

----------------------------------------------------------------------------
(* The SDK's AutoCleanupManager: policies, metadata and the clock *)

FunctionIds == {"func-1", "func-2"}

\* CleanupPolicy(ttl_hours, max_executions, idle_hours): each an int >= 1 or None
CleanupPolicy(ttl, maxe, idle) == [ttl_hours |-> ttl, max_executions |-> maxe, idle_hours |-> idle]
Policies ==
    { CleanupPolicy(JInt(1), None, None), CleanupPolicy(None, JInt(5), None),
      CleanupPolicy(None, None, JInt(2)), CleanupPolicy(JInt(1), JInt(5), JInt(2)),
      CleanupPolicy(None, None, None) }

\* a datetime: minutes since 2025-01-01T00:00 and whether it carries an offset
Datetime(minute, aware) == [minute |-> minute, aware |-> aware]

\* datetime.utcnow(): 2025-01-01T12:00:00, naive
UtcNow == Datetime(720, FALSE)

\* datetime.fromisoformat on the strings the metadata may carry
IsoTable ==
    ("2025-01-01T09:00:00" :> Datetime(540, FALSE))
    @@ ("2025-01-01T10:00:00" :> Datetime(600, FALSE))
    @@ ("2025-01-01T11:00:00" :> Datetime(660, FALSE))
    @@ ("2025-01-01T11:30:00" :> Datetime(690, FALSE))
    @@ ("2025-01-01T09:00:00+00:00" :> Datetime(540, TRUE))
    @@ ("2025-01-01T10:00:00+00:00" :> Datetime(600, TRUE))
    @@ ("2025-01-01T11:30:00+00:00" :> Datetime(690, TRUE))

\* datetime.fromisoformat(s)
fromisoformat(s) ==
    IF s \in DOMAIN IsoTable
    THEN Ok(IsoTable[s])
    ELSE Raise("ValueError", "Invalid isoformat string: '" \o s \o "'")

\* s.replace("Z", "+00:00")
replace_Z(s) ==
    LET replaced[i \in 0..Len(s)] ==
            IF i = 0 THEN ""
            ELSE replaced[i - 1]
                 \o (IF SubSeq(s, i, i) = "Z" THEN "+00:00" ELSE SubSeq(s, i, i))
    IN replaced[Len(s)]

\* datetime.utcnow() > t + timedelta(hours=hours)
utcnow_after(t, hours) ==
    IF t.aware # UtcNow.aware
    THEN Raise("TypeError", "can't compare offset-naive and offset-aware datetimes")
    ELSE Ok(UtcNow.minute > t.minute + 60 * hours)

\* a function's metadata, from the fields it carries
FunctionInfo(fields) ==
    JDict([k \in DOMAIN fields \cup {"function_id"} |->
              IF k = "function_id" THEN JStr("func") ELSE fields[k]])

\* the metadata GET /functions/{id} may answer with: timestamps with and
\* without a trailing Z, and each field present or not
FunctionInfos ==
    { FunctionInfo([created_at |-> JStr("2025-01-01T10:00:00")]),
      FunctionInfo([created_at |-> JStr("2025-01-01T10:00:00Z")]),
      FunctionInfo([created_at |-> JStr("2025-01-01T11:00:00")]),
      FunctionInfo([created_at |-> JStr("2025-01-01T11:30:00")]),
      FunctionInfo([created_at |-> JStr("2025-01-01T11:30:00Z")]),
      FunctionInfo([execution_count |-> JInt(5)]),
      FunctionInfo([execution_count |-> JInt(3)]),
      FunctionInfo([last_executed_at |-> JStr("2025-01-01T09:00:00")]),
      FunctionInfo([last_executed_at |-> JStr("2025-01-01T09:00:00Z")]),
      FunctionInfo([last_executed_at |-> JStr("2025-01-01T11:30:00")]),
      FunctionInfo([created_at |-> JStr("2025-01-01T11:30:00"), execution_count |-> JInt(3),
                    last_executed_at |-> JStr("2025-01-01T09:00:00")]),
      FunctionInfo([created_at |-> JStr("2025-01-01T11:30:00"), execution_count |-> JInt(3),
                    last_executed_at |-> JStr("2025-01-01T11:30:00")]),
      FunctionInfo([created_at |-> JStr("2025-01-01T11:30:00"), execution_count |-> JInt(5)]),
      FunctionInfo([created_at |-> JStr("2025-01-01T10:00:00"), execution_count |-> JInt(3)]),
      FunctionInfo([execution_count |-> JInt(5), last_executed_at |-> JStr("2025-01-01T11:30:00")]),
      FunctionInfo([execution_count |-> JInt(3), last_executed_at |-> JStr("2025-01-01T09:00:00")]),
      FunctionInfo(EmptyDict) }

\* how client.get_function may end
GetOutcomes ==
    { Ok(info) : info \in FunctionInfos }
    \cup { Raise("FunctionNotFoundError", "Resource not found: /functions/func"),
           Raise("RetryError", "RetryError[NetworkError]") }

\* how client.delete_function may end
DeleteOutcomes ==
    { Ok(JDict([deleted |-> JStr("true")])),
      Raise("FunctionNotFoundError", "Resource not found: /functions/func"),
      Raise("RetryError", "RetryError[NetworkError]"),
      Raise("AuthenticationError", "Authentication failed") }

\* d[key]
py_subscript(d, key) ==
    IF key \in DOMAIN d.d THEN Ok(d.d[key]) ELSE Raise("KeyError", "'" \o key \o "'")

\* datetime.fromisoformat(v.replace("Z", "+00:00"))
parse_timestamp(v) ==
    IF v.t # "str"
    THEN Raise("AttributeError", "'" \o TypeName(v) \o "' object has no attribute 'replace'")
    ELSE fromisoformat(replace_Z(v.s))

\* Variant of ttl_exceeded: the age limit is reached at exactly ttl_hours
ttl_exceeded_inclusive(created_at, hours) ==
    IF created_at.aware # UtcNow.aware
    THEN Raise("TypeError", "can't compare offset-naive and offset-aware datetimes")
    ELSE Ok(UtcNow.minute >= created_at.minute + 60 * hours)

\* datetime.utcnow() > created_at + timedelta(hours=policy.ttl_hours)
ttl_exceeded(created_at, hours) == utcnow_after(created_at, hours)

\* the TTL check of _should_delete_function
ttl_check(function_info, policy) ==
    IF ~Truthy(policy.ttl_hours) THEN Ok(FALSE)
    ELSE LET raw == py_subscript(function_info, "created_at")
             created_at == IF raw.ok THEN parse_timestamp(raw.v) ELSE raw
         IN IF ~created_at.ok THEN created_at
            ELSE ttl_exceeded(created_at.v, policy.ttl_hours.i)

\* the execution count check
max_executions_check(function_info, policy) ==
    IF ~Truthy(policy.max_executions) THEN Ok(FALSE)
    ELSE LET count == py_get(function_info, "execution_count", JInt(0)).v
         IN IF count.t # "int"
            THEN Raise("TypeError", "'>=' not supported between instances of '"
                                    \o TypeName(count) \o "' and 'int'")
            ELSE Ok(count.i >= policy.max_executions.i)

\* the idle time check
idle_check(function_info, policy) ==
    IF ~(Truthy(policy.idle_hours) /\ "last_executed_at" \in DOMAIN function_info.d)
    THEN Ok(FALSE)
    ELSE LET last_exec == parse_timestamp(function_info.d["last_executed_at"])
         IN IF ~last_exec.ok THEN last_exec
            ELSE utcnow_after(last_exec.v, policy.idle_hours.i)

\* _should_delete_function once get_function has returned function_info:
\* Ok(TRUE), Ok(FALSE), or the exception that leaves it
should_delete(function_info, policy) ==
    LET ttl == ttl_check(function_info, policy)
        maxe == max_executions_check(function_info, policy)
        idle == idle_check(function_info, policy)
    IN IF ~ttl.ok \/ ttl.v THEN ttl
       ELSE IF ~maxe.ok \/ maxe.v THEN maxe
       ELSE idle

\* function_id in self._registered_functions
is_registered(reg, function_id) == \E i \in 1..Len(reg) : reg[i].id = function_id

\* Variant of register_function: setdefault, a registered id keeps its policy
register_function_setdefault(reg, function_id, policy) ==
    IF is_registered(reg, function_id) THEN reg
    ELSE Append(reg, [id |-> function_id, policy |-> policy])

\* register_function: self._registered_functions[function_id] = policy
register_function(reg, function_id, policy) ==
    IF is_registered(reg, function_id)
    THEN [i \in 1..Len(reg) |->
             IF reg[i].id = function_id THEN [id |-> function_id, policy |-> policy] ELSE reg[i]]
    ELSE Append(reg, [id |-> function_id, policy |-> policy])

\* del self._registered_functions[function_id]
dict_del(reg, function_id) ==
    IF is_registered(reg, function_id)
    THEN Ok(SelectSeq(reg, LAMBDA item : item.id # function_id))
    ELSE Raise("KeyError", "'" \o function_id \o "'")

\* unregister_function
unregister_function(reg, function_id) ==
    IF is_registered(reg, function_id) THEN dict_del(reg, function_id) ELSE Ok(reg)

\* Variant of on_not_found: the registration is kept
on_not_found_keep(reg, function_id) == reg

\* the except FunctionNotFoundError clause of _should_delete_function
on_not_found(reg, function_id) == unregister_function(reg, function_id).v

\* Variant of on_delete_failed: the registration is dropped all the same
on_delete_failed_unregister(reg, function_id) == unregister_function(reg, function_id).v

\* the except Exception clause of cleanup_expired_functions after a failed
\* delete: the error is logged, the mapping is not touched
on_delete_failed(reg, function_id) == reg

\* the two lines after a successful delete: deleted_functions.add, unregister
on_deleted(reg, function_id) == unregister_function(reg, function_id).v

\* the for loop goes on: the next item's get_function is awaited, or the
\* cycle returns deleted_functions
Advance(deleted) ==
    /\ cl_items' = Tail(cl_items)
    /\ deleted_functions' = deleted
    /\ IF Len(cl_items) > 1
       THEN /\ cl_pc' = "get"
            /\ cl_returned' = None
       ELSE /\ cl_pc' = "idle"
            /\ cl_returned' = PySet(deleted)

\* the cycle in flight is the one of a loop task whose cancel() was called:
\* its next step is the CancelledError, not the end of the awaited request
CycleCancelled == \E task \in cancel_req : bg_task[task] = "cycle"

\* a caller (deploy_function with a policy, or user code) registers a function
RegisterFunction ==
    /\ \E function_id \in FunctionIds, policy \in Policies :
         /\ registered_functions' = register_function(registered_functions, function_id, policy)
         /\ cl_event' = [op |-> "register", id |-> function_id, policy |-> policy]
    /\ UNCHANGED <<cl_pc, cl_items, deleted_functions, delete_calls, cl_returned>>
    /\ UNCHANGED <<orch_vars, ws_vars, svc_vars, tk_vars, bg_vars>>

\* a caller unregisters a function id, registered or not
UnregisterFunction ==
    /\ \E function_id \in FunctionIds :
         LET r == unregister_function(registered_functions, function_id)
         IN /\ registered_functions' = IF r.ok THEN r.v ELSE registered_functions
            /\ cl_event' = [op |-> "unregister", id |-> function_id,
                            raised |-> IF r.ok THEN "" ELSE r.exc]
    /\ UNCHANGED <<cl_pc, cl_items, deleted_functions, delete_calls, cl_returned>>
    /\ UNCHANGED <<orch_vars, ws_vars, svc_vars, tk_vars, bg_vars>>

\* cleanup_expired_functions is called: the snapshot list(items()) is taken
\* and the first get_function is awaited, or the empty set is returned
BeginCycle ==
    /\ cl_pc = "idle"
    /\ cl_items' = registered_functions
    /\ deleted_functions' = {}
    /\ delete_calls' = {}
    /\ IF Len(registered_functions) > 0
       THEN /\ cl_pc' = "get"
            /\ cl_returned' = None
       ELSE /\ cl_pc' = "idle"
            /\ cl_returned' = PySet({})
    /\ cl_event' = [op |-> "start"]
    /\ UNCHANGED registered_functions

\* user code calls cleanup_expired_functions
CleanupStart ==
    /\ BeginCycle
    /\ UNCHANGED <<orch_vars, ws_vars, svc_vars, tk_vars, bg_vars>>

\* get_function ends for the current item: _should_delete_function decides,
\* and the cycle awaits the delete, or goes on with the next item
GetReturned(out) ==
    /\ cl_pc = "get"
    /\ ~CycleCancelled
    /\ LET item == Head(cl_items)
           decision == IF out.ok THEN should_delete(out.v, item.policy)
                       ELSE IF out.exc = "FunctionNotFoundError" THEN Ok(FALSE)
                       ELSE out
       IN /\ cl_event' = [op |-> "get", id |-> item.id, policy |-> item.policy,
                          out |-> out, decision |-> decision]
          /\ registered_functions' =
                 IF ~out.ok /\ out.exc = "FunctionNotFoundError"
                 THEN on_not_found(registered_functions, item.id)
                 ELSE registered_functions
          /\ IF decision.ok /\ decision.v
             THEN /\ delete_calls' = delete_calls \cup {item.id}
                  /\ cl_pc' = "delete"
                  /\ UNCHANGED <<cl_items, deleted_functions, cl_returned>>
             ELSE /\ Advance(deleted_functions)
                  /\ UNCHANGED delete_calls
    /\ UNCHANGED <<orch_vars, ws_vars, svc_vars, tk_vars, bg_vars>>

GetReturns == \E out \in GetOutcomes : GetReturned(out)

\* delete_function ends for the current item
DeleteReturns ==
    /\ cl_pc = "delete"
    /\ ~CycleCancelled
    /\ \E out \in DeleteOutcomes :
         LET item == Head(cl_items)
         IN /\ cl_event' = [op |-> "delete", id |-> item.id, policy |-> item.policy, out |-> out]
            /\ registered_functions' =
                   IF out.ok THEN on_deleted(registered_functions, item.id)
                   ELSE on_delete_failed(registered_functions, item.id)
            /\ Advance(IF out.ok THEN deleted_functions \cup {item.id} ELSE deleted_functions)
    /\ UNCHANGED delete_calls
    /\ UNCHANGED <<orch_vars, ws_vars, svc_vars, tk_vars, bg_vars>>

CleanupIdle ==
    /\ registered_functions = <<>>
    /\ cl_pc = "idle"
    /\ cl_items = <<>>
    /\ deleted_functions = {}
    /\ delete_calls = {}
    /\ cl_returned = None
    /\ cl_event = [op |-> "none"]

----------------------------------------------------------------------------
(* The background loop of AutoCleanupManager: start, stop, _cleanup_loop *)

\* the loop tasks the model lets asyncio.create_task create
MaxLoopTasks == 2

LoopTasks == 1..MaxLoopTasks

\* the loop tasks that are not done
LiveLoops == { task \in LoopTasks : bg_task[task] \in {"sleep", "cycle"} }

\* Variant of already_running: start never finds a task running
already_running_unchecked(task, tasks) == FALSE

\* the test of start_background_cleanup: _cleanup_task and not done()
already_running(task, tasks) == task # 0 /\ tasks[task] # "done"

\* start_background_cleanup: a no-op while the task is running, else
\* _running is set and a task is created; the new task runs up to its sleep
start_background_cleanup ==
    IF already_running(cleanup_task, bg_task)
    THEN UNCHANGED <<running, cleanup_task, bg_task>>
    ELSE /\ cleanup_task < MaxLoopTasks
         /\ running' = TRUE
         /\ cleanup_task' = cleanup_task + 1
         /\ bg_task' = [bg_task EXCEPT ![cleanup_task + 1] = "sleep"]

\* a start made while stop awaits its task is remembered by that stop call
NoteRestart ==
    stop_call' = IF stop_call.pc = "await" /\ ~already_running(cleanup_task, bg_task)
                 THEN [stop_call EXCEPT !.restarted = TRUE]
                 ELSE stop_call

\* user code calls start_background_cleanup
StartBackground ==
    /\ start_background_cleanup
    /\ NoteRestart
    /\ cl_event' = [op |-> "start_background", task |-> cleanup_task,
                    noop |-> already_running(cleanup_task, bg_task)]
    /\ UNCHANGED <<registered_functions, cl_pc, cl_items, deleted_functions, delete_calls,
                   cl_returned, cancel_req, orphaned>>
    /\ UNCHANGED <<orch_vars, ws_vars, svc_vars, tk_vars>>

\* the function_id the deployments of the model are answered with
DeployedIds == {"func-1"}

\* HexabaseClient.deploy_function with auto_cleanup, after the POST: the
\* policy is registered under the new id and the background loop is started
DeployWithPolicy ==
    /\ \E function_id \in DeployedIds, policy \in Policies :
         /\ registered_functions' = register_function(registered_functions, function_id, policy)
         /\ cl_event' = [op |-> "deploy", id |-> function_id, policy |-> policy,
                         task |-> cleanup_task,
                         noop |-> already_running(cleanup_task, bg_task)]
    /\ start_background_cleanup
    /\ NoteRestart
    /\ UNCHANGED <<cl_pc, cl_items, deleted_functions, delete_calls, cl_returned,
                   cancel_req, orphaned>>
    /\ UNCHANGED <<orch_vars, ws_vars, svc_vars, tk_vars>>

\* asyncio.sleep ends in a loop task: a cycle begins if _running, else the
\* while test ends the loop
SleepReturns ==
    /\ \E task \in LoopTasks :
         /\ bg_task[task] = "sleep"
         /\ task \notin cancel_req
         /\ IF running
            THEN /\ BeginCycle
                 /\ bg_task' = [bg_task EXCEPT ![task] = "cycle"]
            ELSE /\ bg_task' = [bg_task EXCEPT ![task] = "done"]
                 /\ cl_event' = [op |-> "loop_exit", task |-> task]
                 /\ UNCHANGED <<registered_functions, cl_pc, cl_items, deleted_functions,
                                delete_calls, cl_returned>>
    /\ UNCHANGED <<running, cleanup_task, cancel_req, stop_call, orphaned>>
    /\ UNCHANGED <<orch_vars, ws_vars, svc_vars, tk_vars>>

\* cleanup_expired_functions has returned to the loop: the while test sends
\* the task to its next sleep, or ends the loop
CycleReturns ==
    /\ \E task \in LoopTasks :
         /\ bg_task[task] = "cycle"
         /\ task \notin cancel_req
         /\ cl_pc = "idle"
         /\ bg_task' = [bg_task EXCEPT ![task] = IF running THEN "sleep" ELSE "done"]
         /\ cl_event' = [op |-> "cycle_returns", task |-> task]
    /\ UNCHANGED <<registered_functions, cl_pc, cl_items, deleted_functions, delete_calls,
                   cl_returned>>
    /\ UNCHANGED <<running, cleanup_task, cancel_req, stop_call, orphaned>>
    /\ UNCHANGED <<orch_vars, ws_vars, svc_vars, tk_vars>>

\* stop_background_cleanup is called: _running is cleared and the task is
\* cancelled and awaited; with no task, or a task that is done, it returns
StopBackground ==
    /\ stop_call.pc = "idle"
    /\ running' = FALSE
    /\ IF cleanup_task # 0 /\ bg_task[cleanup_task] # "done"
       THEN /\ cancel_req' = cancel_req \cup {cleanup_task}
            /\ stop_call' = [pc |-> "await", task |-> cleanup_task, restarted |-> FALSE]
       ELSE /\ stop_call' = [pc |-> "idle", task |-> cleanup_task, restarted |-> FALSE]
            /\ UNCHANGED cancel_req
    /\ cl_event' = [op |-> "stop_background", task |-> cleanup_task,
                    returned |-> ~(cleanup_task # 0 /\ bg_task[cleanup_task] # "done")]
    /\ UNCHANGED <<registered_functions, cl_pc, cl_items, deleted_functions, delete_calls,
                   cl_returned, cleanup_task, bg_task, orphaned>>
    /\ UNCHANGED <<orch_vars, ws_vars, svc_vars, tk_vars>>

\* the CancelledError reaches the loop task at the await it is suspended at.
\* No except clause of the loop or of the cycle catches it: the task ends,
\* and a cycle in flight ends with it. A delete request in flight may have
\* been carried out by the server or not.
CancelDelivered ==
    /\ \E task \in cancel_req, served \in BOOLEAN :
         /\ bg_task[task] \in {"sleep", "cycle"}
         /\ bg_task' = [bg_task EXCEPT ![task] = "done"]
         /\ cancel_req' = cancel_req \ {task}
         /\ IF bg_task[task] = "cycle" /\ cl_pc # "idle"
            THEN /\ cl_pc' = "idle"
                 /\ orphaned' = IF cl_pc = "delete" /\ served
                                THEN orphaned \cup {Head(cl_items).id}
                                ELSE orphaned
                 /\ cl_event' = [op |-> "cancelled", task |-> task, at |-> cl_pc,
                                 id |-> Head(cl_items).id]
            ELSE /\ served
                 /\ cl_event' = [op |-> "cancelled", task |-> task, at |-> "sleep", id |-> ""]
                 /\ UNCHANGED <<cl_pc, orphaned>>
    /\ UNCHANGED <<registered_functions, cl_items, deleted_functions, delete_calls, cl_returned>>
    /\ UNCHANGED <<running, cleanup_task, stop_call>>
    /\ UNCHANGED <<orch_vars, ws_vars, svc_vars, tk_vars>>

\* Variant of task_done: the await does not wait for the task
task_done_unawaited(task, tasks) == TRUE

\* await self._cleanup_task resumes once the task is done
task_done(task, tasks) == tasks[task] = "done"

\* the task stop awaits is done: the CancelledError is swallowed and
\* stop_background_cleanup returns
StopReturns ==
    /\ stop_call.pc = "await"
    /\ task_done(stop_call.task, bg_task)
    /\ stop_call' = [stop_call EXCEPT !.pc = "idle"]
    /\ cl_event' = [op |-> "stop_returns", task |-> stop_call.task,
                    restarted |-> stop_call.restarted]
    /\ UNCHANGED <<registered_functions, cl_pc, cl_items, deleted_functions, delete_calls,
                   cl_returned>>
    /\ UNCHANGED <<running, cleanup_task, bg_task, cancel_req, orphaned>>
    /\ UNCHANGED <<orch_vars, ws_vars, svc_vars, tk_vars>>

BackgroundIdle ==
    /\ running = FALSE
    /\ cleanup_task = 0
    /\ bg_task = [task \in LoopTasks |-> "none"]
    /\ cancel_req = {}
    /\ stop_call = [pc |-> "idle", task |-> 0, restarted |-> FALSE]
    /\ orphaned = {}

----------------------------------------------------------------------------
(* The SDK's TokenManager and AuthProvider.get_valid_token *)

Tasks == {1, 2}

\* the tick at which the clock of the model stops, and the authenticate calls
\* after which no further one is started
MaxNow == 1003
MaxAuthenticate == 3

\* TokenManager._refresh_buffer
refresh_buffer == 300

\* the expires_in values POST /auth/token may answer with, in seconds
Lifetimes == {2, 302, 3600}

\* how authenticate may end: token data, a 401, or a transport error
AuthenticateOutcomes ==
    { Ok([expires_in |-> e]) : e \in Lifetimes }
    \cup { Raise("AuthenticationError", "Authentication failed"),
           Raise("NetworkError", "Network error during authentication: ") }

\* Variant of is_token_valid: the token still counts at its expiry instant
is_token_valid_inclusive(token, expires_at, t) ==
    IF ~Truthy(token) THEN FALSE ELSE t <= expires_at

\* TokenManager.is_token_valid
is_token_valid(token, expires_at, t) ==
    IF ~Truthy(token) THEN FALSE ELSE t < expires_at

\* TokenManager.get_token
get_token(token, expires_at, t) ==
    IF ~is_token_valid(token, expires_at, t)
    THEN Raise("TokenExpiredError", "Token has expired or is not set")
    ELSE Ok(token.s)

\* TokenManager.should_refresh
should_refresh(token, expires_at, t) ==
    IF ~Truthy(token) THEN TRUE ELSE t > (expires_at - refresh_buffer)

\* the access_token of the n-th answer of the server
TokenName(n) == "token-" \o ToString(n)

\* the task is done: its call returned r or raised it
Finish(task, r) ==
    /\ tk_pc' = [tk_pc EXCEPT ![task] = "done"]
    /\ tk_result' = [tk_result EXCEPT ![task] = r]

\* get_valid_token with the lock taken, up to its first await or its return:
\* authenticate is awaited when should_refresh says so, else the lock is
\* released (asyncio.Lock.release: the first waiter takes it when it runs)
\* and get_token returns
Locked(task, round) ==
    IF should_refresh(access_token, token_expires_at, now)
    THEN /\ authenticate_calls < MaxAuthenticate
         /\ refresh_lock' = task
         /\ authenticate_calls' = authenticate_calls + 1
         /\ tk_pc' = [tk_pc EXCEPT ![task] = "authenticate"]
         /\ tk_round' = [round EXCEPT !.refreshes = @ + 1]
         /\ UNCHANGED tk_result
    ELSE /\ refresh_lock' = 0
         /\ Finish(task, get_token(access_token, token_expires_at, now))
         /\ tk_round' = round
         /\ UNCHANGED authenticate_calls

\* a task calls get_valid_token: it takes the free lock at once, or waits
GetValidToken ==
    /\ \E task \in Tasks :
         /\ tk_pc[task] \in {"idle", "done"}
         /\ LET alone == \A other \in Tasks \ {task} : tk_pc[other] \in {"idle", "done"}
                round == IF alone
                         THEN [callers |-> {task}, waited |-> {}, refreshes |-> 0,
                               failed |-> FALSE, token |-> "",
                               needed |-> should_refresh(access_token, token_expires_at, now)]
                         ELSE [tk_round EXCEPT !.callers = @ \cup {task}]
            IN IF refresh_lock = 0 /\ lock_waiters = <<>>
               THEN /\ Locked(task, round)
                    /\ UNCHANGED lock_waiters
               ELSE /\ lock_waiters' = Append(lock_waiters, task)
                    /\ tk_pc' = [tk_pc EXCEPT ![task] = "lock"]
                    /\ tk_round' = [round EXCEPT !.waited = @ \cup {task}]
                    /\ UNCHANGED <<refresh_lock, authenticate_calls, tk_result>>
    /\ UNCHANGED <<now, access_token, token_expires_at, got_token>>
    /\ UNCHANGED <<orch_vars, ws_vars, svc_vars, cl_vars, bg_vars>>

\* the first waiter runs again with the lock released to it
LockAcquired ==
    /\ refresh_lock = 0
    /\ lock_waiters # <<>>
    /\ lock_waiters' = Tail(lock_waiters)
    /\ Locked(Head(lock_waiters), tk_round)
    /\ UNCHANGED <<now, access_token, token_expires_at, got_token>>
    /\ UNCHANGED <<orch_vars, ws_vars, svc_vars, cl_vars, bg_vars>>

\* authenticate ends for the task holding the lock: on success store_token
\* keeps the token and its expiry, the lock is released and get_token
\* returns; on failure the exception leaves get_valid_token
AuthenticateReturns ==
    /\ \E task \in Tasks, out \in AuthenticateOutcomes :
         /\ tk_pc[task] = "authenticate"
         /\ IF out.ok
            THEN /\ access_token' = JStr(TokenName(authenticate_calls))
                 /\ token_expires_at' = now + out.v.expires_in
                 /\ Finish(task, get_token(JStr(TokenName(authenticate_calls)),
                                           now + out.v.expires_in, now))
                 /\ tk_round' = [tk_round EXCEPT
                                   !.token = IF @ = "" THEN TokenName(authenticate_calls) ELSE @]
            ELSE /\ Finish(task, out)
                 /\ tk_round' = [tk_round EXCEPT !.failed = TRUE]
                 /\ UNCHANGED <<access_token, token_expires_at>>
    /\ refresh_lock' = 0
    /\ UNCHANGED <<now, lock_waiters, authenticate_calls, got_token>>
    /\ UNCHANGED <<orch_vars, ws_vars, svc_vars, cl_vars, bg_vars>>

\* a second passes
Tick ==
    /\ now < MaxNow
    /\ now' = now + 1
    /\ UNCHANGED <<access_token, token_expires_at, refresh_lock, lock_waiters, tk_pc,
                   tk_result, authenticate_calls, tk_round, got_token>>
    /\ UNCHANGED <<orch_vars, ws_vars, svc_vars, cl_vars, bg_vars>>

\* user code calls TokenManager.store_token(token, expires_in)
StoreToken ==
    /\ \E expires_in \in Lifetimes :
         /\ access_token' = JStr(TokenName(0))
         /\ token_expires_at' = now + expires_in
    /\ UNCHANGED <<now, refresh_lock, lock_waiters, tk_pc, tk_result, authenticate_calls,
                   tk_round, got_token>>
    /\ UNCHANGED <<orch_vars, ws_vars, svc_vars, cl_vars, bg_vars>>

\* user code calls TokenManager.get_token (AuthProvider.get_token does the same)
GetToken ==
    /\ got_token' = get_token(access_token, token_expires_at, now)
    /\ UNCHANGED <<now, access_token, token_expires_at, refresh_lock, lock_waiters, tk_pc,
                   tk_result, authenticate_calls, tk_round>>
    /\ UNCHANGED <<orch_vars, ws_vars, svc_vars, cl_vars, bg_vars>>

TokenInit ==
    /\ got_token = None
    /\ now = 1000
    /\ access_token = None
    /\ token_expires_at = 0
    /\ refresh_lock = 0
    /\ lock_waiters = <<>>
    /\ tk_pc = [task \in Tasks |-> "idle"]
    /\ tk_result = [task \in Tasks |-> None]
    /\ authenticate_calls = 0
    /\ tk_round = [callers |-> {}, waited |-> {}, refreshes |-> 0, failed |-> FALSE,
                   token |-> "", needed |-> FALSE]

----------------------------------------------------------------------------
(* OrchestratorAgent.run and the chat endpoint *)

\* Variant of run_knows: run goes on to self.tools[tool_name] unguarded
run_knows_unguarded(name) == TRUE

\* run's test that select_tool's first component names a tool
run_knows(name) == \E i \in 1..Len(tools_keys) : tools_keys[i] = name

\* run from select_tool's return up to the call of tool.use: either run
\* returns (or raises) at once, or it holds the input model for the tool
run_dispatch(sel) ==
    IF ~run_knows(sel.tool_name)
    THEN [call |-> FALSE,
          r |-> Ok("Error: The AI selected an invalid tool ('" \o sel.tool_name \o "').")]
    ELSE IF \A i \in 1..Len(tools_keys) : tools_keys[i] # sel.tool_name
    THEN [call |-> FALSE, r |-> Raise("KeyError", "'" \o sel.tool_name \o "'")]
    ELSE LET cls == tool_input_models(sel.tool_name)
         IN IF ~cls.ok
            THEN [call |-> FALSE,
                  r |-> Ok("Error: Could not find input model for tool '" \o sel.tool_name
                           \o "'. Available tools: ['get_kubernetes_nodes', 'scale_deployment', 'query_logs']")]
            ELSE LET m == construct(cls.v, sel.tool_input)
                 IN IF ~m.ok
                    THEN [call |-> FALSE,
                          r |-> Ok("Error: Invalid input for tool '" \o sel.tool_name
                                   \o "': " \o m.msg)]
                    ELSE [call |-> TRUE, m |-> m.v]

Workspaces == {"ws-1", "ws-2"}

\* run is over: r is the string it returns or the exception it raises; the
\* chat endpoint wraps the string in its ChatResponse, and an exception
\* becomes the framework's 500
Return(r) ==
    /\ result' = IF r.ok THEN JStr(r.v) ELSE None
    /\ raised' = IF r.ok THEN None ELSE [t |-> "exc", exc |-> r.exc, msg |-> r.msg]
    /\ chat_response' =
          IF entry # "chat_endpoint" THEN None
          ELSE IF r.ok
               THEN [status_code |-> 200, reply |-> r.v, workspace_id |-> workspace_id]
               ELSE [status_code |-> 500]
    /\ pc' = "done"

\* a new request starts: the per-request state is fresh
Fresh ==
    /\ llm_calls' = 0
    /\ llm_response' = None
    /\ tool_name' = ""
    /\ tool_input_dict' = None
    /\ input_model' = None
    /\ tool_uses' = 0
    /\ api_requests' = <<>>
    /\ api_outcome' = None
    /\ UNCHANGED system_prompt
    /\ result' = None
    /\ raised' = None
    /\ chat_response' = None

\* POST /v1/chat arrives with verified claims: chat_endpoint is entered
ChatEndpoint ==
    /\ pc \in {"idle", "done"}
    /\ \E ws \in Workspaces : workspace_id' = ws
    /\ entry' = "chat_endpoint"
    /\ pc' = "endpoint_predict"
    /\ Fresh
    /\ UNCHANGED <<ws_vars, sdk_vars, svc_vars>>

\* chat_endpoint's own llm_client.predict call; its reply is not used
EndpointPredict ==
    /\ pc = "endpoint_predict"
    /\ llm_calls' = llm_calls + 1
    /\ pc' = "select"
    /\ UNCHANGED <<entry, workspace_id, llm_response, tool_name, tool_input_dict,
                   input_model, tool_uses, api_requests, api_outcome, system_prompt,
                   result, raised, chat_response>>
    /\ UNCHANGED <<ws_vars, sdk_vars, svc_vars>>

\* agent.run called directly (as the tests do)
RunDirect ==
    /\ pc \in {"idle", "done"}
    /\ \E ws \in Workspaces : workspace_id' = ws
    /\ entry' = "run"
    /\ pc' = "select"
    /\ Fresh
    /\ UNCHANGED <<ws_vars, sdk_vars, svc_vars>>

\* run: select_tool's predict call returns, the reply is resolved, and run
\* goes on to its return or to the request of the selected tool
RunSelect ==
    /\ pc = "select"
    /\ \E reply \in Replies :
         LET sel == select_tool(reply, workspace_id)
             d == run_dispatch(sel)
         IN /\ system_prompt' = JStr(generate_system_prompt(TOOL_REGISTRY))
            /\ llm_calls' = llm_calls + 1
            /\ llm_response' = reply
            /\ tool_name' = sel.tool_name
            /\ tool_input_dict' = sel.tool_input
            /\ IF d.call
               THEN /\ input_model' = d.m
                    /\ tool_uses' = tool_uses + 1
                    /\ api_requests' = Append(api_requests, tool_request(sel.tool_name, d.m))
                    /\ pc' = "api"
                    /\ UNCHANGED <<result, raised, chat_response>>
               ELSE /\ Return(d.r)
                    /\ UNCHANGED <<input_model, tool_uses, api_requests>>
    /\ UNCHANGED <<entry, workspace_id, api_outcome>>
    /\ UNCHANGED <<ws_vars, sdk_vars, svc_vars>>

\* the cluster API request ends; tool.use returns or raises, and so does run
ToolUse ==
    /\ pc = "api"
    /\ \E out \in ApiOutcomes :
         /\ api_outcome' = out
         /\ Return(tool_use(tool_name, input_model, out))
    /\ UNCHANGED <<entry, workspace_id, llm_calls, llm_response, tool_name,
                   tool_input_dict, input_model, tool_uses, api_requests, system_prompt>>
    /\ UNCHANGED <<ws_vars, sdk_vars, svc_vars>>

OrchInit ==
    /\ pc = "idle"
    /\ entry = ""
    /\ workspace_id = ""
    /\ llm_calls = 0
    /\ llm_response = None
    /\ tool_name = ""
    /\ tool_input_dict = None
    /\ input_model = None
    /\ tool_uses = 0
    /\ api_requests = <<>>
    /\ api_outcome = None
    /\ system_prompt = None
    /\ result = None
    /\ raised = None
    /\ chat_response = None

WsIdle ==
    /\ ws_req = None
    /\ ws_pc = "idle"
    /\ ws_auth = None
    /\ ws_response = None

----------------------------------------------------------------------------
(* app/main.py: get_public_key and the module-level jwks_cache *)

Callers == {1, 2}

\* RSAAlgorithm.from_jwk: the key object of a well-formed JWK, an exception otherwise
from_jwk(key_data) ==
    CASE key_data = "jwk-1" -> Ok("public-key-1")
      [] key_data = "jwk-2" -> Ok("public-key-2")
      [] OTHER -> Raise("InvalidKeyError", "Not a public or private key")

\* What the GET of HKS_JWKS_URL can bring: status 0 stands for a request that
\* raised instead of answering; json says whether the body parses, has_keys
\* whether the parsed object has the entry "keys", keys is that entry.
JwksResponses ==
    {[status |-> 0, json |-> FALSE, has_keys |-> FALSE, keys |-> <<>>],
     [status |-> 500, json |-> TRUE, has_keys |-> FALSE, keys |-> <<>>],
     [status |-> 200, json |-> FALSE, has_keys |-> FALSE, keys |-> <<>>],
     [status |-> 200, json |-> TRUE, has_keys |-> FALSE, keys |-> <<>>],
     [status |-> 200, json |-> TRUE, has_keys |-> TRUE, keys |-> <<>>]}
    \cup {[status |-> 200, json |-> TRUE, has_keys |-> TRUE, keys |-> ks] :
            ks \in {<<"jwk-1">>, <<"jwk-2">>, <<"jwk-bad">>,
                    <<"jwk-2", "jwk-1">>, <<"jwk-1", "jwk-bad">>}}

\* the body of the try block once the GET is over
fetch_public_key(response) ==
    IF response.status = 0 THEN Raise("ConnectError", "")
    ELSE IF response.status >= 400 THEN Raise("HTTPStatusError", "")
    ELSE IF ~response.json THEN Raise("JSONDecodeError", "")
    ELSE IF ~response.has_keys THEN Raise("KeyError", "keys")
    ELSE IF response.keys = <<>> THEN Raise("IndexError", "list index out of range")
    ELSE from_jwk(response.keys[1])

HTTPException(status_code, detail) ==
    [ok |-> FALSE, exc |-> "HTTPException", status_code |-> status_code,
     detail |-> detail]

NotReady ==
    HTTPException(503, "Could not fetch validation keys. AIOps service is not ready.")

in_cache_ignored(key, cache) == FALSE

\* key in jwks_cache
in_cache(key, cache) == \E item \in cache : item[1] = key

\* jwks_cache[key]
cached(key, cache) == (CHOOSE item \in cache : item[1] = key)[2]

\* jwks_cache[key] = value
cache_set(key, value, cache) ==
    {item \in cache : item[1] # key} \cup {<<key, value>>}

\* A caller enters get_public_key: with the key cached it returns it at once,
\* otherwise it goes to the await of the GET.
GetPublicKey ==
    \E caller \in Callers :
        /\ key_pc[caller] # "fetch"
        /\ IF in_cache("public_key", jwks_cache)
              THEN /\ key_pc' = [key_pc EXCEPT ![caller] = "done"]
                   /\ key_result' =
                          [key_result EXCEPT
                              ![caller] = Ok(cached("public_key", jwks_cache))]
                   /\ key_event' = [op |-> "call", caller |-> caller, hit |-> TRUE,
                                    response |-> None]
              ELSE /\ key_pc' = [key_pc EXCEPT ![caller] = "fetch"]
                   /\ key_result' = [key_result EXCEPT ![caller] = None]
                   /\ key_event' = [op |-> "call", caller |-> caller, hit |-> FALSE,
                                    response |-> None]
        /\ UNCHANGED <<jwks_cache, fetched_keys>>
        /\ UNCHANGED <<orch_vars, ws_vars, sdk_vars, rq_vars>>

\* The GET of a caller ends: the rest of the try block runs without an await.
FetchReturns ==
    \E caller \in Callers, response \in JwksResponses :
        /\ key_pc[caller] = "fetch"
        /\ LET public_key == fetch_public_key(response) IN
             IF public_key.ok
                THEN /\ jwks_cache' = cache_set("public_key", public_key.v, jwks_cache)
                     /\ fetched_keys' = fetched_keys \cup {public_key.v}
                     /\ key_result' = [key_result EXCEPT ![caller] = Ok(public_key.v)]
                ELSE /\ key_result' = [key_result EXCEPT ![caller] = NotReady]
                     /\ UNCHANGED <<jwks_cache, fetched_keys>>
        /\ key_pc' = [key_pc EXCEPT ![caller] = "done"]
        /\ key_event' = [op |-> "fetched", caller |-> caller, hit |-> FALSE,
                         response |-> response]
        /\ UNCHANGED <<orch_vars, ws_vars, sdk_vars, rq_vars>>

KeysIdle ==
    /\ jwks_cache = {}
    /\ key_pc = [caller \in Callers |-> "idle"]
    /\ key_result = [caller \in Callers |-> None]
    /\ fetched_keys = {}
    /\ key_event = [op |-> "none", caller |-> 0, hit |-> FALSE, response |-> None]

----------------------------------------------------------------------------
(* hexabase_ai/client.py: _make_request under tenacity's retry *)

\* stop_after_attempt(3)
max_attempt_number == 3

\* How get_auth_headers can end: the headers, or the error of the token
\* refresh it ran
HeaderOutcomes ==
    {Ok(JStr("Bearer token")),
     Raise("AuthenticationError", "Authentication failed"),
     Raise("NetworkError", "Network error during authentication")}

\* How the request can end: kind "timeout" and "transport" are the httpx
\* exceptions, kind "response" is a response with its status and its body (a
\* JSON object, a JSON list, or text that is not JSON).
HttpOutcomes ==
    {[kind |-> k, status_code |-> 0, body |-> "text"] : k \in {"timeout", "transport"}}
    \cup [kind : {"response"}, status_code : {200, 401, 403, 404, 422, 500},
          body : {"object", "list", "text"}]

\* response.json()
response_json_body(out) ==
    IF out.body = "text"
    THEN Raise("JSONDecodeError", "Expecting value")
    ELSE Ok(out.body)

\* the try block of _make_request from the moment the request is over
request_attempt(out) ==
    CASE out.kind = "timeout" -> Raise("NetworkError", "Request timed out")
      [] out.kind = "transport" -> Raise("NetworkError", "HTTP error")
      [] OTHER ->
         IF out.status_code = 401
         THEN Raise("AuthenticationError", "Authentication failed")
         ELSE IF out.status_code = 404
         THEN Raise("FunctionNotFoundError", "Resource not found")
         ELSE IF out.status_code = 422
         THEN LET error_data == response_json_body(out)
              IN IF ~error_data.ok THEN error_data
                 ELSE IF error_data.v # "object"
                 THEN Raise("AttributeError", "'list' object has no attribute 'get'")
                 ELSE Raise("ValidationError", "Validation failed")
         ELSE IF out.status_code >= 500
         THEN Raise("NetworkError", "Server error")
         ELSE IF out.status_code >= 400
         THEN Raise("NetworkError", "HTTP error")
         ELSE response_json_body(out)

\* retry_if_exception_type(NetworkError)
retry_if_exception_type(attempt) == ~attempt.ok /\ attempt.exc = "NetworkError"

\* An attempt is over: tenacity returns its value, lets an exception it does
\* not retry through, raises RetryError after the last attempt, or sleeps
\* before the next one.
AttemptEnds(sent, out, attempt) ==
    /\ rq_log' = Append(rq_log, [sent |-> sent, out |-> out, raised |-> attempt])
    /\ IF ~retry_if_exception_type(attempt)
       THEN rq_pc' = "done" /\ rq_result' = attempt
       ELSE IF Len(rq_log) + 1 >= max_attempt_number
       THEN rq_pc' = "done" /\ rq_result' = Raise("RetryError", attempt.exc)
       ELSE rq_pc' = "wait" /\ UNCHANGED rq_result

MakeRequest ==
    /\ rq_pc \in {"idle", "done"}
    /\ rq_pc' = "headers"
    /\ rq_log' = <<>>
    /\ rq_result' = None
    /\ UNCHANGED <<orch_vars, ws_vars, sdk_vars, key_vars>>

\* get_auth_headers is over: the request goes out, or the attempt ends there
HeadersReturn ==
    /\ rq_pc = "headers"
    /\ \E headers \in HeaderOutcomes :
          IF headers.ok
          THEN rq_pc' = "request" /\ UNCHANGED <<rq_log, rq_result>>
          ELSE AttemptEnds(FALSE, [kind |-> "headers", status_code |-> 0, body |-> "text"],
                           headers)
    /\ UNCHANGED <<orch_vars, ws_vars, sdk_vars, key_vars>>

ResponseArrives ==
    /\ rq_pc = "request"
    /\ \E out \in HttpOutcomes : AttemptEnds(TRUE, out, request_attempt(out))
    /\ UNCHANGED <<orch_vars, ws_vars, sdk_vars, key_vars>>

\* the sleep of wait_exponential is over: the next attempt starts
WaitReturns ==
    /\ rq_pc = "wait"
    /\ rq_pc' = "headers"
    /\ UNCHANGED <<rq_log, rq_result>>
    /\ UNCHANGED <<orch_vars, ws_vars, sdk_vars, key_vars>>

RequestIdle ==
    /\ rq_pc = "idle"
    /\ rq_log = <<>>
    /\ rq_result = None

Init ==
    OrchInit /\ WsIdle /\ CleanupIdle /\ TokenInit /\ BackgroundIdle /\ KeysIdle
    /\ RequestIdle

Next == ChatEndpoint \/ EndpointPredict \/ RunDirect \/ RunSelect \/ ToolUse

Spec == Init /\ [][Next]_vars

NextCleanup ==
    RegisterFunction \/ UnregisterFunction \/ CleanupStart \/ GetReturns \/ DeleteReturns

SpecCleanup == Init /\ [][NextCleanup]_vars

NextLoop ==
    \/ DeployWithPolicy
    \/ StartBackground
    \/ StopBackground
    \/ SleepReturns
    \/ GetReturns
    \/ DeleteReturns
    \/ CycleReturns
    \/ CancelDelivered
    \/ StopReturns

SpecLoop == Init /\ [][NextLoop]_vars

NextToken ==
    GetValidToken \/ LockAcquired \/ AuthenticateReturns \/ Tick \/ StoreToken \/ GetToken

SpecToken == Init /\ [][NextToken]_vars

NextKeys == GetPublicKey \/ FetchReturns

SpecKeys == Init /\ [][NextKeys]_vars

NextRequest == MakeRequest \/ HeadersReturn \/ ResponseArrives \/ WaitReturns

SpecRequest == Init /\ [][NextRequest]_vars

----------------------------------------------------------------------------
(* The workspace-scoped routers behind the JWT middleware *)

UuidA == "aaaaaaaa-aaaa-4aaa-8aaa-aaaaaaaaaaaa"
UuidAUpper == "AAAAAAAA-AAAA-4AAA-8AAA-AAAAAAAAAAAA"
UuidAHex == "aaaaaaaaaaaa4aaa8aaaaaaaaaaaaaaa"
UuidB == "bbbbbbbb-bbbb-4bbb-8bbb-bbbbbbbbbbbb"
UuidBUrn == "urn:uuid:bbbbbbbb-bbbb-4bbb-8bbb-bbbbbbbbbbbb"

\* str(uuid.UUID(s)) for each string that reads as a UUID: the lower-case
\* hyphenated form
UuidTable ==
    (UuidA :> UuidA) @@ (UuidAUpper :> UuidA) @@ (UuidAHex :> UuidA)
    @@ (UuidB :> UuidB) @@ (UuidBUrn :> UuidB)

\* uuid.UUID(s), held as its str()
uuid_UUID(s) ==
    IF s \in DOMAIN UuidTable
    THEN Ok(UuidTable[s])
    ELSE Raise("ValueError", "badly formed hexadecimal UUID string")

Permissions == {"aiops:read", "aiops:analyze", "aiops:remediate", "aiops:admin"}

\* the workspace_id claims and the path segments requests carry
WorkspaceStrings == DOMAIN UuidTable \cup {"ws-12345", ""}
PermissionSets ==
    { {}, {"aiops:read"}, {"aiops:read", "aiops:analyze", "aiops:remediate"}, {"aiops:admin"} }

\* a bearer token: decodes (signature, expiry, issuer, audience, age) or not,
\* and the claims it carries
Tokens ==
    [decodes : BOOLEAN, workspace_id : WorkspaceStrings, permissions : PermissionSets]

Headers ==
    { [kind |-> "missing"], [kind |-> "basic"] }
    \cup { [kind |-> "bearer", token |-> t] : t \in Tokens }

Endpoints == {"alerts", "analyze", "insights", "remediate", "recommendations"}

Requests == [endpoint : Endpoints, path_workspace_id : WorkspaceStrings \ {""}, header : Headers]

\* the paths, outside the workspace routers, that requests ask for: the health
\* check, a probe of the health router, and the mounted metrics application
ServicePaths == {"/health/", "/health/live", "/metrics"}

ServiceRequests ==
    [endpoint : {"service"}, path : ServicePaths, path_workspace_id : {""},
     header : Headers]

\* request.url.path
url_path(req) ==
    IF req.endpoint \in Endpoints
    THEN "/workspaces/" \o req.path_workspace_id \o "/" \o req.endpoint
    ELSE req.path

EXEMPT_PATHS == {"/health", "/health/", "/metrics", "/docs", "/redoc", "/openapi.json"}

\* Variant of _is_exempt_path: every path is taken for exempt
is_exempt_path_any(path) == TRUE

\* JWTAuthMiddleware._is_exempt_path
is_exempt_path(path) == path \in EXEMPT_PATHS

\* get_auth_context, from request.state.auth (None when the attribute is not set)
get_auth_context(auth) ==
    IF auth = None
    THEN Raise("AuthenticationError", "No authentication context available")
    ELSE Ok(auth)

\* JWTValidator._validate_workspace_isolation
validate_workspace_isolation(claims) ==
    IF claims.workspace_id = ""
    THEN Raise("AuthenticationError", "Token missing workspace_id claim")
    ELSE IF ~uuid_UUID(claims.workspace_id).ok
    THEN Raise("AuthenticationError", "Invalid workspace_id format")
    ELSE Ok(None)

\* JWTValidator.validate_token
validate_token(token) ==
    IF ~token.decodes
    THEN Raise("AuthenticationError", "Invalid token")
    ELSE LET iso == validate_workspace_isolation(token)
         IN IF ~iso.ok
            THEN Raise("AuthenticationError", "Token validation failed: " \o iso.msg)
            ELSE Ok([t |-> "auth", workspace_id |-> token.workspace_id,
                     permissions |-> token.permissions])

\* JWTAuthMiddleware._authenticate_request
authenticate_request(req) ==
    CASE req.header.kind = "missing" ->
            Raise("AuthenticationError", "Missing Authorization header")
      [] req.header.kind = "basic" ->
            Raise("AuthenticationError", "Invalid Authorization header format")
      [] OTHER -> validate_token(req.header.token)

\* AuthContext.has_permission
has_permission(auth, permission) ==
    permission \in auth.permissions \/ "aiops:admin" \in auth.permissions

\* the permission each endpoint requires
required_permission(endpoint) ==
    CASE endpoint = "analyze" -> "aiops:analyze"
      [] endpoint = "remediate" -> "aiops:remediate"
      [] OTHER -> "aiops:read"

ErrorResponse(status_code, error) ==
    [status_code |-> status_code, error |-> error, workspace_id |-> ""]

\* Variant of workspace_matches: the comparison is left out
workspace_matches_unchecked(path_uuid, auth) == TRUE

\* the handlers' test  str(workspace_id) != auth.workspace_id,  negated
workspace_matches(path_uuid, auth) == path_uuid = auth.workspace_id

\* get_alerts, trigger_analysis, get_insights, execute_remediation and
\* get_recommendations, from the parsed path UUID and the auth context to the
\* response (an AIOpsException becomes the response of the exception handler)
endpoint_handler(endpoint, path_uuid, auth) ==
    IF ~has_permission(auth, required_permission(endpoint))
    THEN ErrorResponse(403, "ACCESS_DENIED")
    ELSE IF ~workspace_matches(path_uuid, auth)
    THEN ErrorResponse(400, "VALIDATION_ERROR")
    ELSE [status_code |-> 200, error |-> "",
          workspace_id |-> IF endpoint \in {"analyze", "remediate"} THEN path_uuid ELSE ""]

\* a request for a workspace endpoint arrives; its state is its own
WsArrive ==
    /\ ws_pc \in {"idle", "done"}
    /\ \E req \in Requests \cup ServiceRequests : ws_req' = req
    /\ ws_auth' = None
    /\ ws_response' = None
    /\ ws_pc' = "middleware"
    /\ UNCHANGED <<orch_vars, sdk_vars, svc_vars>>

\* JWTAuthMiddleware.dispatch up to call_next
WsDispatch ==
    /\ ws_pc = "middleware"
    /\ IF is_exempt_path(url_path(ws_req))
       THEN /\ ws_pc' = "handler"
            /\ UNCHANGED <<ws_auth, ws_response>>
       ELSE LET a == authenticate_request(ws_req)
            IN IF a.ok
               THEN /\ ws_auth' = a.v
                    /\ ws_pc' = "handler"
                    /\ UNCHANGED ws_response
               ELSE /\ ws_response' = ErrorResponse(401, "AUTH_FAILED")
                    /\ ws_pc' = "done"
                    /\ UNCHANGED ws_auth
    /\ UNCHANGED ws_req
    /\ UNCHANGED <<orch_vars, sdk_vars, svc_vars>>

\* the route: a service path answers without reading the auth context; on a
\* workspace route the path segment is read as a UUID (422 when it is none)
\* and the handler runs, its AuthenticationError answered with 401
WsEndpoint ==
    /\ ws_pc = "handler"
    /\ LET u == uuid_UUID(ws_req.path_workspace_id)
           auth == get_auth_context(ws_auth)
       IN ws_response' =
              IF ws_req.endpoint \notin Endpoints
              THEN [status_code |-> 200, error |-> "", workspace_id |-> ""]
              ELSE IF ~u.ok
              THEN ErrorResponse(422, "")
              ELSE IF ~auth.ok
              THEN ErrorResponse(401, "AUTH_FAILED")
              ELSE endpoint_handler(ws_req.endpoint, u.v, auth.v)
    /\ ws_pc' = "done"
    /\ UNCHANGED <<ws_req, ws_auth>>
    /\ UNCHANGED <<orch_vars, sdk_vars, svc_vars>>

NextWs == WsArrive \/ WsDispatch \/ WsEndpoint

SpecWs == Init /\ [][NextWs]_vars

----------------------------------------------------------------------------
(* Properties of the orchestration loop *)

\* the kind of a select_tool failure, read off its message
FailureKind(d) ==
    LET msg == d.d["message"].s
    IN CASE msg = "The AI model encountered an error" -> "model error"
         [] msg = "The AI model produced invalid JSON" -> "malformed reply"
         [] Contains(msg, "The AI selected an invalid tool: '") -> "unknown action"
         [] Contains(msg, "missing required field: ") -> "missing field"
         [] OTHER -> "unexpected"

\* what a selection comes to: the tool and its parameters, or the failure kind
Outcome(sel) ==
    IF sel.tool_name = "error"
    THEN [tool_name |-> "error", kind |-> FailureKind(sel.tool_input), parameters |-> None]
    ELSE [tool_name |-> sel.tool_name, kind |-> "", parameters |-> sel.tool_input]

\* select_tool has returned for the request in hand
Selected == pc \in {"api", "done"}
Current == [tool_name |-> tool_name, tool_input |-> tool_input_dict]
RegisteredNames == {TOOL_REGISTRY[i].name : i \in 1..Len(TOOL_REGISTRY)}

\* the object a reply carries once its text is parsed, when there is one
IsContainer(reply) ==
    reply.t = "dict" /\ "response" \in DOMAIN reply.d /\ "error" \notin DOMAIN reply.d
HasError(reply) == reply.t = "dict" /\ "error" \in DOMAIN reply.d
IsBareObject(reply) ==
    reply.t = "dict" /\ "response" \notin DOMAIN reply.d /\ "error" \notin DOMAIN reply.d
ReplyText(reply) ==
    IF reply.t = "str" THEN reply
    ELSE IF IsContainer(reply) THEN reply.d["response"]
    ELSE None
ReplyObject(reply) ==
    IF IsBareObject(reply) THEN reply
    ELSE IF ReplyText(reply).t = "str" /\ ReplyText(reply).s \in DOMAIN JsonTable
         THEN JsonTable[ReplyText(reply).s]
         ELSE None

\* the reply parses and names, under tool_name, something that is no registered tool
NamesUnknownTool(reply) ==
    LET o == ReplyObject(reply)
    IN /\ ~HasError(reply)
       /\ o.t = "dict"
       /\ {"tool_name", "tool_input"} \subseteq DOMAIN o.d
       /\ o.d["tool_name"].t \in {"str", "none"}
       /\ PyStr(o.d["tool_name"]) \notin RegisteredNames \/ o.d["tool_name"].t = "none"

\* the reply is a text that is not JSON, given raw or in a container
IsNotJson(reply) ==
    /\ ReplyText(reply).t = "str"
    /\ ReplyText(reply).s \notin DOMAIN JsonTable

\* some request in api_requests is scoped to a workspace other than ws
ScopedTo(req, ws) ==
    \/ Contains(req.url, "/internal/v1/workspaces/" \o ws \o "/")
    \/ /\ req.json.t = "dict"
       /\ "workspace_id" \in DOMAIN req.json.d
       /\ req.json.d["workspace_id"] = JStr(ws)

\* C1: whenever select_tool resolved a reply to a registered tool, the
\* parameters it returned, the input model run built from them and every
\* cluster API request sent carry the caller's workspace_id, whatever
\* workspace_id the reply's tool_input carried.
C1_WorkspaceScope ==
    (Selected /\ tool_name \in RegisteredNames) =>
        /\ tool_input_dict.d["workspace_id"] = JStr(workspace_id)
        /\ input_model # None => input_model.f["workspace_id"] = JStr(workspace_id)
        /\ \A i \in 1..Len(api_requests) :
               /\ ScopedTo(api_requests[i], workspace_id)
               /\ \A other \in Workspaces \ {workspace_id} : ~ScopedTo(api_requests[i], other)

\* a reply carrying another tenant's workspace_id was resolved and its tool called
C1_Witness ==
    /\ pc = "api"
    /\ workspace_id = "ws-1"
    /\ llm_response = ContainerOf(TxtScaleWs)
    /\ tool_uses = 1
    /\ Len(api_requests) = 1

\* C3: when select_tool reports a failure, run is over with an error string
\* returned, nothing raised, no input model built, no tool invoked and no
\* cluster API request sent.
C3_FailureStopsRun ==
    (Selected /\ tool_name = "error") =>
        /\ pc = "done"
        /\ raised = None
        /\ result.t = "str"
        /\ SubSeq(result.s, 1, 6) = "Error:"
        /\ input_model = None
        /\ tool_uses = 0
        /\ api_requests = <<>>

\* a missing-field failure of select_tool, after which run has returned
C3_Witness ==
    /\ pc = "done"
    /\ tool_name = "error"
    /\ FailureKind(tool_input_dict) = "missing field"
    /\ result.t = "str"

\* C4: run always returns a string and never raises.
C4_RunNeverRaises ==
    pc = "done" => (raised = None /\ result.t = "str")

\* C5: one chat request makes exactly one predict call and at most one tool
\* call with at most one cluster API request.
C5_SingleCalls ==
    (pc = "done" /\ entry = "chat_endpoint") =>
        /\ llm_calls = 1
        /\ tool_uses <= 1
        /\ Len(api_requests) <= 1

\* C6: when the reply names an unknown tool, run's string reports an invalid
\* tool selection and contains the name the model selected.
C6_InvalidToolNamed ==
    (pc = "done" /\ NamesUnknownTool(llm_response)) =>
        /\ result.t = "str"
        /\ Contains(result.s, "invalid tool")
        /\ Contains(result.s, "'" \o PyStr(ReplyObject(llm_response).d["tool_name"]) \o "'")

\* C7: when the reply is not JSON, resolution fails as a malformed reply and
\* run's string says the model failed to produce a valid tool selection, which
\* the error for an unknown tool does not say.
C7_MalformedReported ==
    (pc = "done" /\ IsNotJson(llm_response)) =>
        /\ tool_name = "error"
        /\ FailureKind(tool_input_dict) = "malformed reply"
        /\ result.t = "str"
        /\ Contains(result.s, "The AI model failed to produce a valid tool selection.")
        /\ ~Contains(result.s, "invalid tool")

\* C8: when the reply parses and names an unknown tool, select_tool fails with
\* available_tools equal to the registered names in registry order.
C8_AvailableToolsListed ==
    (Selected /\ NamesUnknownTool(llm_response)) =>
        /\ tool_name = "error"
        /\ FailureKind(tool_input_dict) = "unknown action"
        /\ tool_input_dict.d["available_tools"] =
               JList([i \in 1..Len(TOOL_REGISTRY) |-> JStr(TOOL_REGISTRY[i].name)])

\* an unknown tool was named and select_tool has failed on it
C8_Witness ==
    /\ pc = "done"
    /\ llm_response = JStr(TxtCoffee)
    /\ tool_name = "error"
    /\ "available_tools" \in DOMAIN tool_input_dict.d

\* the raw-text and container forms of a text resolve alike, and an error
\* container is a model error
C9_TextAndContainerAgree ==
    /\ llm_response.t = "str" =>
           Outcome(Current) = Outcome(select_tool(ContainerOf(llm_response.s), workspace_id))
    /\ (IsContainer(llm_response) /\ llm_response.d["response"].t = "str") =>
           Outcome(Current) = Outcome(select_tool(llm_response.d["response"], workspace_id))
    /\ HasError(llm_response) =>
           (tool_name = "error" /\ FailureKind(tool_input_dict) = "model error")
    /\ (llm_response.t \notin {"str", "dict"}
        \/ (IsContainer(llm_response) /\ llm_response.d["response"].t # "str")) =>
           tool_name = "error"

\* C9 as stated: text and container agree, an error container is a model
\* error, and every other reply shape is a failure.
C9_OtherShapesFail ==
    Selected =>
        /\ C9_TextAndContainerAgree
        /\ IsBareObject(llm_response) => tool_name = "error"

\* C9 amended: text and container agree, an error container is a model error,
\* a dict reply with neither an error nor a response field is resolved as the
\* object itself (as the text that encodes it would be), and every other
\* reply shape is a failure.
C9_ReplyShapes ==
    Selected =>
        /\ C9_TextAndContainerAgree
        /\ IsBareObject(llm_response) =>
               \A x \in DOMAIN JsonTable :
                   JsonTable[x] = llm_response =>
                       Outcome(Current) = Outcome(select_tool(JStr(x), workspace_id))

\* a container reply was resolved to the tool its text names
C9_Witness ==
    /\ pc = "api"
    /\ llm_response = ContainerOf(TxtScale)
    /\ tool_name = "scale_deployment"

\* the fields each tool's input model requires, and the type of each field
RequiredOf(name) ==
    IF name = "scale_deployment" THEN {"workspace_id", "deployment_name", "replicas"}
    ELSE {"workspace_id"}
StrFieldsOf(name) ==
    CASE name = "scale_deployment" -> {"workspace_id", "deployment_name"}
      [] name = "query_logs" -> {"workspace_id", "search_term", "level", "start_time", "end_time"}
      [] OTHER -> {"workspace_id"}
IntFieldsOf(name) ==
    CASE name = "scale_deployment" -> {"replicas"}
      [] name = "query_logs" -> {"limit"}
      [] OTHER -> {}
ReadsAsInt(v) == v.t = "int" \/ (v.t = "str" /\ v.s \in {"5", "10"})
InvalidParameters(name, d) ==
    \/ \E k \in RequiredOf(name) : k \notin DOMAIN d.d
    \/ \E k \in StrFieldsOf(name) \cap DOMAIN d.d : d.d[k].t # "str"
    \/ \E k \in IntFieldsOf(name) \cap DOMAIN d.d : ~ReadsAsInt(d.d[k])

\* C10: when the resolved parameters lack a required field of the selected
\* tool or carry a value of the wrong type, run is over with an invalid-input
\* error, no tool invoked and no cluster API request sent.
C10_InvalidInputRejected ==
    (Selected /\ tool_name \in RegisteredNames
              /\ InvalidParameters(tool_name, tool_input_dict)) =>
        /\ pc = "done"
        /\ raised = None
        /\ result.t = "str"
        /\ Contains(result.s, "Error: Invalid input for tool '" \o tool_name \o "'")
        /\ input_model = None
        /\ tool_uses = 0
        /\ api_requests = <<>>

\* a scale selection with a replicas value that is no integer was rejected
C10_Witness ==
    /\ pc = "done"
    /\ llm_response = JStr(TxtScaleBadReplicas)
    /\ tool_name = "scale_deployment"
    /\ Contains(result.s, "Invalid input")

----------------------------------------------------------------------------
(* Properties of the workspace-scoped routers *)

\* the handler of the request in hand has run with an auth context
WsHandled ==
    ws_pc = "done" /\ ws_auth # None /\ uuid_UUID(ws_req.path_workspace_id).ok

\* the path and the auth context name the same workspace
SameWorkspace ==
    uuid_UUID(ws_req.path_workspace_id).v = uuid_UUID(ws_auth.workspace_id).v

WsServed == ws_response.status_code = 200

\* C2 as stated: a request whose path workspace differs from the auth
\* context's is rejected with a validation error, and a request is served only
\* when the two are the same workspace.
C2_MismatchIsValidationError ==
    WsHandled =>
        /\ ~SameWorkspace =>
               (ws_response.status_code = 400 /\ ws_response.error = "VALIDATION_ERROR")
        /\ WsServed => SameWorkspace

\* C2 amended: a request whose path workspace differs from the auth context's
\* is rejected and answered with no workspace data: with a validation error
\* when the caller holds the endpoint's permission, with an authorization
\* error when it does not; a request is served only when the two are the same
\* workspace.
C2_CrossWorkspaceRejected ==
    WsHandled =>
        /\ ~SameWorkspace =>
               /\ ~WsServed
               /\ ws_response.workspace_id = ""
               /\ IF has_permission(ws_auth, required_permission(ws_req.endpoint))
                  THEN ws_response.status_code = 400 /\ ws_response.error = "VALIDATION_ERROR"
                  ELSE ws_response.status_code = 403 /\ ws_response.error = "ACCESS_DENIED"
        /\ WsServed =>
               /\ SameWorkspace
               /\ ws_response.workspace_id \in {"", uuid_UUID(ws_auth.workspace_id).v}

\* a caller holding the permission asked for another workspace and was refused
C2_Witness ==
    /\ WsHandled
    /\ ws_req.endpoint = "remediate"
    /\ ws_req.path_workspace_id = UuidB
    /\ ws_auth.workspace_id = UuidA
    /\ "aiops:remediate" \in ws_auth.permissions
    /\ ws_response.status_code = 400

----------------------------------------------------------------------------
(* Properties of the tools' results and of the system prompt *)

\* tool.use got a response of the cluster API for the request in hand
ApiAnswered == pc = "done" /\ api_outcome # None /\ api_outcome.kind = "response"

\* the body of that response is a JSON object with an error field
BodyHasError ==
    /\ api_outcome.body.json
    /\ api_outcome.body.v.t = "dict"
    /\ "error" \in DOMAIN api_outcome.body.v.d

\* C11: for each of the three tools, a non-2xx response of the cluster API
\* gives an error string that contains the numeric status code and, when the
\* body has an error field, that field's value.
C11_UpstreamErrorReported ==
    (ApiAnswered /\ ~is_success(api_outcome)) =>
        /\ result # None
        /\ Contains(result.s, "Error")
        /\ Contains(result.s, ToString(api_outcome.status_code))
        /\ BodyHasError => Contains(result.s, PyStr(api_outcome.body.v.d["error"]))

\* a list of JSON objects
IsEntryList(v) == v.t = "list" /\ \A i \in 1..Len(v.xs) : v.xs[i].t = "dict"

\* the log entries a response body carries: a top-level array, or the logs
\* of a wrapper object
CarriesEntries(v) ==
    \/ IsEntryList(v)
    \/ v.t = "dict" /\ "logs" \in DOMAIN v.d /\ IsEntryList(v.d["logs"])
EntriesOf(v) == IF v.t = "list" THEN v.xs ELSE v.d["logs"].xs

StartsWith(s, prefix) == Len(s) >= Len(prefix) /\ SubSeq(s, 1, Len(prefix)) = prefix
Occurrences(s, sub) ==
    Cardinality({i \in 1..(Len(s) - Len(sub) + 1) : SubSeq(s, i, i + Len(sub) - 1) = sub})

\* C12: for a 2xx log-query response carrying N entries, as a top-level array
\* or inside a {logs: [...]} wrapper, the log tool returns "Found N log
\* entries" followed by one line per entry when N > 0, and a distinguishable
\* no-results message when N = 0.
C12_LogEntriesReported ==
    (/\ ApiAnswered
     /\ tool_name = "query_logs"
     /\ is_success(api_outcome)
     /\ api_outcome.body.json
     /\ CarriesEntries(api_outcome.body.v)) =>
        LET N == Len(EntriesOf(api_outcome.body.v))
        IN /\ result # None
           /\ IF N > 0
              THEN /\ StartsWith(result.s, "Found " \o ToString(N) \o " log entries")
                   /\ Occurrences(result.s, "\n- [") = N
              ELSE /\ StartsWith(result.s, "No log")
                   /\ ~Contains(result.s, "Found")
                   /\ ~Contains(result.s, "Error")

\* the line of the prompt that lists tool i of the registry
PromptLine(i) ==
    "- " \o TOOL_REGISTRY[i].name \o ": " \o TOOL_REGISTRY[i].description \o "\n"
FirstIndex(s, sub) ==
    CHOOSE i \in 1..Len(s) :
        /\ SubSeq(s, i, i + Len(sub) - 1) = sub
        /\ \A j \in 1..(i - 1) : SubSeq(s, j, j + Len(sub) - 1) # sub

\* the prompt lists each registered tool once, name and description, in
\* registry order, and lists nothing else
ListsRegistry(s) ==
    /\ \A i \in 1..Len(TOOL_REGISTRY) :
          /\ Occurrences(s, PromptLine(i)) = 1
          /\ Occurrences(s, "- " \o TOOL_REGISTRY[i].name \o ":") = 1
    /\ \A i \in 1..(Len(TOOL_REGISTRY) - 1) :
          FirstIndex(s, PromptLine(i)) < FirstIndex(s, PromptLine(i + 1))
    /\ Occurrences(s, "\n- ") = Len(TOOL_REGISTRY)

\* C13: with an unchanged registry every rendering of the system prompt gives
\* the same text, whatever the query, the workspace and the earlier requests
\* were, and the text lists each registered tool exactly once, in registry
\* insertion order.
C13_PromptDeterministic ==
    [][/\ system_prompt # None => system_prompt' = system_prompt
       /\ system_prompt' # system_prompt => ListsRegistry(system_prompt'.s)]_vars

\* a prompt was rendered for an earlier request and the next rendering, for
\* the other workspace, is due
C13_Witness ==
    /\ system_prompt # None
    /\ pc = "select"
    /\ workspace_id = "ws-2"

----------------------------------------------------------------------------
(* Properties of the cleanup engine *)

\* the step just made is the end of a get_function / delete_function call
Fetched(ev) == ev.op = "get" /\ ev.out.ok
NotFound(ev) == ev.op = "get" /\ ~ev.out.ok /\ ev.out.exc = "FunctionNotFoundError"
DeleteFailed(ev) == ev.op = "delete" /\ ~ev.out.ok

\* minutes between the instant an ISO-8601 timestamp denotes, written with or
\* without a trailing Z, and now
AgeMinutes(stamp) ==
    LET plain == IF SubSeq(stamp, Len(stamp), Len(stamp)) = "Z"
                 THEN SubSeq(stamp, 1, Len(stamp) - 1) ELSE stamp
    IN UtcNow.minute - IsoTable[plain].minute

\* the conditions of the policy that the fetched metadata satisfies
TtlMet(ev) ==
    /\ ev.policy.ttl_hours # None
    /\ "created_at" \in DOMAIN ev.out.v.d
    /\ AgeMinutes(ev.out.v.d["created_at"].s) > 60 * ev.policy.ttl_hours.i
MaxExecutionsMet(ev) ==
    /\ ev.policy.max_executions # None
    /\ "execution_count" \in DOMAIN ev.out.v.d
    /\ ev.out.v.d["execution_count"].i >= ev.policy.max_executions.i
IdleMet(ev) ==
    /\ ev.policy.idle_hours # None
    /\ "last_executed_at" \in DOMAIN ev.out.v.d
    /\ AgeMinutes(ev.out.v.d["last_executed_at"].s) > 60 * ev.policy.idle_hours.i
AnyConditionMet(ev) == TtlMet(ev) \/ MaxExecutionsMet(ev) \/ IdleMet(ev)

\* the cycle has called the remote delete for the function of the last step
DeleteIssued ==
    /\ cl_pc = "delete"
    /\ Head(cl_items).id = cl_event.id
    /\ cl_event.id \in delete_calls

\* a successful remote delete puts the id in the set and unregisters it
DeletedLocally ==
    (cl_event.op = "delete" /\ cl_event.out.ok) =>
        /\ cl_event.id \in deleted_functions
        /\ ~is_registered(registered_functions, cl_event.id)
        /\ cl_pc = "idle" => cl_event.id \in cl_returned.e

\* C14: under a policy with ttl_hours = T the function is deleted whenever the
\* fetched created_at is more than T hours in the past, written with or
\* without a trailing Z; with created_at less than T hours in the past and no
\* other condition set it is not deleted.
C14_TtlDeletes ==
    /\ (Fetched(cl_event) /\ TtlMet(cl_event)) => DeleteIssued
    /\ DeletedLocally
    /\ (/\ Fetched(cl_event)
        /\ cl_event.policy.ttl_hours # None
        /\ cl_event.policy.max_executions = None
        /\ cl_event.policy.idle_hours = None
        /\ "created_at" \in DOMAIN cl_event.out.v.d
        /\ AgeMinutes(cl_event.out.v.d["created_at"].s) < 60 * cl_event.policy.ttl_hours.i)
       => cl_pc # "delete"

\* C15: for a policy with any subset of the three conditions set, the function
\* is deleted whenever at least one set condition is satisfied by the fetched
\* metadata, whatever the other conditions and the presence of the fields
\* they read.
C15_AnyConditionDeletes ==
    (Fetched(cl_event) /\ AnyConditionMet(cl_event)) => DeleteIssued

\* the cycle goes on after the current item: the next item, or the return
CycleGoesOn ==
    /\ cl_items' = Tail(cl_items)
    /\ IF cl_items' # <<>>
       THEN cl_pc' = "get"
       ELSE cl_pc' = "idle" /\ cl_returned' = PySet(deleted_functions')

\* C16: a failed remote delete does not end the cycle with an exception, does
\* not put the id in the returned set, leaves the registration and its policy
\* as they are, and the remaining functions of the cycle are still evaluated.
C16_DeleteFailureKept ==
    [][(cl_pc = "delete" /\ DeleteFailed(cl_event')) =>
          /\ registered_functions' = registered_functions
          /\ deleted_functions' = deleted_functions
          /\ cl_event'.id \notin deleted_functions'
          /\ CycleGoesOn]_vars

\* a delete failed, the function is still registered and the cycle is at the
\* next function
C16_Witness ==
    /\ DeleteFailed(cl_event)
    /\ cl_pc = "get"
    /\ is_registered(registered_functions, cl_event.id)
    /\ cl_event.id \notin deleted_functions

\* C17: a metadata fetch that reports not found unregisters the id locally,
\* calls no remote delete for it, keeps it out of the returned set, and the
\* cycle goes on with the other functions.
C17_NotFoundUnregisters ==
    [][(cl_pc = "get" /\ NotFound(cl_event')) =>
          /\ registered_functions' =
                 SelectSeq(registered_functions, LAMBDA item : item.id # cl_event'.id)
          /\ delete_calls' = delete_calls
          /\ cl_event'.id \notin deleted_functions'
          /\ CycleGoesOn]_vars

\* a registered function was reported not found, it is gone from the mapping
\* and the cycle is at the next function
C17_Witness ==
    /\ NotFound(cl_event)
    /\ ~is_registered(registered_functions, cl_event.id)
    /\ Len(registered_functions) = 1
    /\ cl_pc = "get"

\* C18: a function whose fetched metadata satisfies none of the conditions of
\* its policy is left untouched by the cycle: no remote delete, not in the
\* returned set, registration and policy unchanged.
C18_UnmetLeftUntouched ==
    [][(cl_pc = "get" /\ Fetched(cl_event') /\ ~AnyConditionMet(cl_event')) =>
          /\ registered_functions' = registered_functions
          /\ delete_calls' = delete_calls
          /\ deleted_functions' = deleted_functions
          /\ cl_pc' # "delete"]_vars

\* a function with a ttl was fetched at exactly its age limit and is still
\* registered, with no delete called
C18_Witness ==
    /\ Fetched(cl_event)
    /\ cl_event.policy.ttl_hours # None
    /\ "created_at" \in DOMAIN cl_event.out.v.d
    /\ cl_event.out.v.d["created_at"].s = "2025-01-01T11:00:00"
    /\ ~AnyConditionMet(cl_event)
    /\ is_registered(registered_functions, cl_event.id)
    /\ cl_event.id \notin delete_calls

\* the policy the mapping holds for an id, or None
PolicyOf(reg, function_id) ==
    IF is_registered(reg, function_id)
    THEN (CHOOSE i \in 1..Len(reg) : reg[i].id = function_id)
    ELSE 0
Holds(reg, function_id) ==
    IF is_registered(reg, function_id) THEN reg[PolicyOf(reg, function_id)].policy ELSE None
UniqueKeys(reg) == \A i, j \in 1..Len(reg) : reg[i].id = reg[j].id => i = j

\* C19: register_function makes the mapping hold the given policy for the id,
\* replacing any prior one; unregister_function removes the id; neither
\* touches another id, and unregistering an absent id changes nothing and
\* raises nothing.
C19_RegistryUpsert ==
    [][/\ cl_event'.op = "register" =>
              /\ is_registered(registered_functions', cl_event'.id)
              /\ Holds(registered_functions', cl_event'.id) = cl_event'.policy
              /\ UniqueKeys(registered_functions')
              /\ \A other \in FunctionIds \ {cl_event'.id} :
                     Holds(registered_functions', other) = Holds(registered_functions, other)
       /\ cl_event'.op = "unregister" =>
              /\ cl_event'.raised = ""
              /\ ~is_registered(registered_functions', cl_event'.id)
              /\ ~is_registered(registered_functions, cl_event'.id) =>
                     registered_functions' = registered_functions
              /\ \A other \in FunctionIds \ {cl_event'.id} :
                     Holds(registered_functions', other) = Holds(registered_functions, other)
      ]_vars

\* the first of two registered functions was registered again
C19_Witness ==
    /\ cl_event.op = "register"
    /\ Len(registered_functions) = 2
    /\ registered_functions[1].id = cl_event.id
    /\ registered_functions[1].policy = cl_event.policy

----------------------------------------------------------------------------
(* Properties of the token refresh *)

\* every task called get_valid_token while the token needed a refresh, one
\* of them waited for the other's refresh, no refresh failed, and all the
\* calls are over
ConcurrentRefreshOver ==
    /\ tk_round.callers = Tasks
    /\ tk_round.needed
    /\ tk_round.waited # {}
    /\ ~tk_round.failed
    /\ \A task \in Tasks : tk_pc[task] = "done"

\* C20: when several get_valid_token calls run concurrently while the token
\* needs a refresh, authenticate is invoked exactly once and every caller
\* receives the token stored by that refresh, for every token lifetime the
\* server may return.
C20_SingleRefresh ==
    ConcurrentRefreshOver =>
        /\ tk_round.refreshes = 1
        /\ \A task \in Tasks : tk_result[task] = Ok(tk_round.token)

\* C21: with a token stored, should_refresh is true at every time from 300
\* seconds before the expiry onward, the instant expires_at - 300 included,
\* and it is true with no token stored.
C21_RefreshFromBufferOn ==
    /\ ~Truthy(access_token) => should_refresh(access_token, token_expires_at, now)
    /\ (Truthy(access_token) /\ now >= token_expires_at - refresh_buffer)
           => should_refresh(access_token, token_expires_at, now)

----------------------------------------------------------------------------
(* Properties of the background cleanup loop *)

\* the last call was a start (or a deployment with a policy) that found the
\* task running
StartedWhileRunning ==
    /\ cl_event.op \in {"start_background", "deploy"}
    /\ cl_event.noop

\* C22: start_background_cleanup called while a cleanup task is running
\* creates no second task and leaves the running one in place, so after any
\* sequence of start, stop and deploy calls at most one loop task is live.
C22_SingleLoop ==
    /\ Cardinality(LiveLoops) <= 1
    /\ LiveLoops \subseteq {cleanup_task}
    /\ StartedWhileRunning => (cleanup_task = cl_event.task /\ bg_task[cleanup_task] # "done")

C22_Witness ==
    /\ StartedWhileRunning
    /\ LiveLoops = {cleanup_task}
    /\ cleanup_task = MaxLoopTasks

\* C23: a cycle in flight when stop_background_cleanup is called completes:
\* only a pending sleep is cancelled, and no function is left deleted by the
\* server but still registered locally.
C23_InFlightCycleCompletes ==
    /\ cl_event.op = "cancelled" => cl_event.at = "sleep"
    /\ \A function_id \in orphaned : ~is_registered(registered_functions, function_id)

\* C26: when stop_background_cleanup returns the background task has
\* terminated: no evaluation is in progress, and none begins until start is
\* called again; a stop with no loop running returns at once and changes
\* nothing else.
C26_StopTerminates ==
    /\ (cl_event.op = "stop_returns" /\ ~cl_event.restarted) =>
           /\ bg_task[cl_event.task] = "done"
           /\ LiveLoops = {}
    /\ (cl_event.op = "stop_background" /\ cl_event.returned) =>
           /\ LiveLoops = {}
           /\ stop_call.pc = "idle"
    /\ LiveLoops = {} => cl_pc = "idle"

C26_Witness ==
    /\ cl_event.op = "stop_returns"
    /\ ~cl_event.restarted
    /\ deleted_functions = {}
    /\ delete_calls # {}
    /\ ~running

\* C24: registration, unregistration and a cycle exclude each other on the
\* mapping: no register or unregister call takes effect while a cycle is in
\* flight, a cycle issues a remote delete only for an id still registered,
\* and after a successful delete it removes only the registration whose
\* policy it read.
C24_CycleExclusive ==
    [][/\ cl_event'.op \in {"register", "unregister"} => cl_pc = "idle"
       /\ (cl_event'.op = "get" /\ cl_pc' = "delete") =>
              is_registered(registered_functions', cl_event'.id)
       /\ (cl_event'.op = "delete" /\ cl_event'.out.ok
              /\ is_registered(registered_functions, cl_event'.id)) =>
              Holds(registered_functions, cl_event'.id) = cl_event'.policy]_vars

\* the policy sets a condition
HasCondition(policy) ==
    policy.ttl_hours # None \/ policy.max_executions # None \/ policy.idle_hours # None

\* the fetches that succeed with metadata satisfying a condition of the
\* policy, when the policy sets one
FetchesMet(policy) ==
    { out \in GetOutcomes :
        /\ out.ok
        /\ HasCondition(policy) => AnyConditionMet([policy |-> policy, out |-> out]) }

LiveFetch ==
    /\ cl_pc = "get"
    /\ \E out \in FetchesMet(Head(cl_items).policy) : GetReturned(out)

DeleteSucceeds == DeleteReturns /\ cl_event'.out.ok

\* a function is deployed while none is registered
DeployOnce == registered_functions = <<>> /\ DeployWithPolicy

\* the loop left running, the policy of a registered function left as it is,
\* and every fetch succeeding on metadata that meets the policy
NextLive ==
    \/ StartBackground
    \/ DeployOnce
    \/ SleepReturns
    \/ LiveFetch
    \/ DeleteReturns
    \/ CycleReturns

\* where the loop and its cycle are: each of their steps changes it
loop_at == <<bg_task, cl_pc, cl_items>>

\* the timer fires, the requests are answered, and a delete that is tried
\* again and again succeeds in the end
SpecLive ==
    /\ Init
    /\ [][NextLive]_vars
    /\ WF_loop_at(SleepReturns)
    /\ WF_loop_at(LiveFetch)
    /\ WF_loop_at(DeleteReturns)
    /\ WF_loop_at(CycleReturns)
    /\ SF_loop_at(DeleteSucceeds)

\* the deployed function is registered under a policy with a condition while
\* the loop runs
RegisteredToExpire ==
    /\ LiveLoops # {}
    /\ \E function_id \in DeployedIds :
         /\ is_registered(registered_functions, function_id)
         /\ HasCondition(Holds(registered_functions, function_id))

\* C25: while the loop runs, a registered function whose fetch succeeds,
\* whose policy has a condition that stays satisfied and whose remote delete
\* eventually succeeds is eventually deleted and removed from the registry.
C25_EventuallyDeleted == RegisteredToExpire ~> ~RegisteredToExpire

----------------------------------------------------------------------------
(* Properties of the tokens handed out *)

\* a token is stored and the current time is strictly before its expiry
TokenUsable == Truthy(access_token) /\ now < token_expires_at

\* what a call that ended in this step returned or raised
Ended ==
    { tk_result'[task] : task \in { t \in Tasks : tk_pc[t] # "done" /\ tk_pc'[t] = "done" } }
    \cup (IF GetToken THEN {got_token'} ELSE {})

\* a token handed out is the stored one, and it is usable
OnlyUsableReturned ==
    \A r \in Ended : r.ok => (TokenUsable' /\ r.v = access_token'.s)

----------------------------------------------------------------------------
(* C28: get_public_key and the key cache *)

OneKeyCached(cache) ==
    \E key \in fetched_keys' : cache = {<<"public_key", key>>}

\* C28: a get_public_key call starts a JWKS fetch only when it finds the cache
\* empty; once a fetch has succeeded, every call made afterwards returns the
\* key the cache holds without fetching and without touching the cache; a fetch
\* that fails does not write the cache (a cache that was empty stays empty) and
\* the call raises HTTPException 503; a fetch that succeeds, concurrent with
\* another or not, stores the key it fetched, so the cache is always empty or
\* holds one successfully fetched key.
C28_CachedKeyOnly ==
    [][\A caller \in Callers :
        /\ (key_pc[caller] # "fetch" /\ key_pc'[caller] = "fetch")
              => jwks_cache = {}
        /\ (/\ fetched_keys # {}
            /\ key_event'.op = "call"
            /\ key_event'.caller = caller)
              => /\ key_pc'[caller] = "done"
                 /\ key_result'[caller].ok
                 /\ jwks_cache = {<<"public_key", key_result'[caller].v>>}
                 /\ jwks_cache' = jwks_cache
        /\ (key_pc[caller] = "fetch" /\ key_pc'[caller] = "done")
              => IF key_result'[caller].ok
                    THEN jwks_cache' = {<<"public_key", key_result'[caller].v>>}
                    ELSE /\ key_result'[caller] = NotReady
                         /\ key_result'[caller].status_code = 503
                         /\ jwks_cache' = jwks_cache
                         /\ fetched_keys = {} => jwks_cache' = {}
        /\ jwks_cache' = {} \/ OneKeyCached(jwks_cache')
      ]_vars

\* Two cold-start calls fetched side by side and each got a key; a later call
\* was then served from the cache.
C28_Witness ==
    /\ key_event.op = "call"
    /\ key_event.hit
    /\ Cardinality(fetched_keys) = 2
    /\ key_result[key_event.caller].ok
    /\ key_result[key_event.caller].v \in fetched_keys

----------------------------------------------------------------------------
(* C29: the JWT middleware in front of the routes *)

\* the request carries no Authorization header, one that is not Bearer, or a
\* bearer token that validate_token refuses
Unauthenticated(req) ==
    \/ req.header.kind \in {"missing", "basic"}
    \/ req.header.kind = "bearer" /\ ~validate_token(req.header.token).ok

\* the middleware hands the request in hand to the route
HandlerStarts == ws_pc = "middleware" /\ ws_pc' = "handler"

----------------------------------------------------------------------------
(* C30: the attempts of one _make_request call *)

\* the HTTP requests the call has sent so far
RequestsSent ==
    Cardinality({i \in 1..Len(rq_log) : rq_log[i].sent})
    + (IF rq_pc = "request" THEN 1 ELSE 0)

\* the attempt was followed by another one
Reattempted(i) == i < Len(rq_log) \/ rq_pc # "done"

\* the exception the statement gives for a response status
StatusException(status_code) ==
    CASE status_code = 401 -> "AuthenticationError"
      [] status_code = 404 -> "FunctionNotFoundError"
      [] status_code = 422 -> "ValidationError"

\* C30: one _make_request call sends at most 3 HTTP requests; an attempt is
\* followed by another only if it raised NetworkError, for a timeout, a
\* transport error or a 5xx response; an attempt that received a 401, 404 or
\* 422 response is the last of the call, which ends with AuthenticationError,
\* FunctionNotFoundError or ValidationError respectively.
C30_RetryOnlyNetworkError ==
    /\ RequestsSent <= 3
    /\ \A i \in 1..Len(rq_log) :
          LET attempt == rq_log[i]
          IN /\ Reattempted(i) =>
                   /\ retry_if_exception_type(attempt.raised)
                   /\ \/ attempt.out.kind \in {"timeout", "transport", "headers"}
                      \/ attempt.out.status_code >= 500
             /\ (/\ attempt.out.kind = "response"
                 /\ attempt.out.status_code \in {401, 404, 422})
                   => /\ ~Reattempted(i)
                      /\ ~rq_result.ok
                      /\ rq_result.exc = StatusException(attempt.out.status_code)

====
